---- MODULE Spec2Model ----
(***************************************************************************)
(* Savings Distribution & Reconciliation Engine of bucket-bot:            *)
(* src/src/webhook.ts (detection), src/src/bucket.ts (validation, the     *)
(* three distribution strategies, matcher, cleanup and verification) and  *)
(* src/src/index.ts (the webhook handler that composes them).             *)
(***************************************************************************)
EXTENDS Integers, Sequences, FiniteSets, TLC

(***************************************************************************)
(* JavaScript Number arithmetic.                                          *)
(*                                                                        *)
(* The code computes with IEEE-754 binary64: every operation rounds its   *)
(* exact result to 53 significant bits.  The model keeps that structure   *)
(* with decimal floating point: a number is m * 10^e, every operation     *)
(* rounds its exact result to Digits significant decimal digits (round    *)
(* half to even), 0/0 is NaN and NaN propagates.  Numbers are kept in a   *)
(* canonical form (no trailing zero in m) so that equal values are equal  *)
(* records.                                                               *)
(***************************************************************************)
Digits == 7

NaN == [k |-> "nan", m |-> 0, e |-> 0]

Infinity == [k |-> "inf", m |-> 1, e |-> 0]

IsNum(a) == a.k = "num"

RECURSIVE Pow10(_)
Pow10(n) == IF n <= 0 THEN 1 ELSE 10 * Pow10(n - 1)

RECURSIVE NumDigits(_)
NumDigits(m) == IF m < 10 THEN 1 ELSE 1 + NumDigits(m \div 10)

Abs(i) == IF i < 0 THEN -i ELSE i

Sign(i) == IF i < 0 THEN -1 ELSE 1

\* q / d rounded to the nearest integer, ties to even; sticky tells that the
\* exact dividend was larger than q by a nonzero amount already dropped
RoundHalfEven(q, d, sticky) ==
  LET lo == q \div d
      r2 == 2 * (q % d)
  IN  IF r2 > d \/ (r2 = d /\ sticky) THEN lo + 1
      ELSE IF r2 < d THEN lo
      ELSE IF lo % 2 = 0 THEN lo ELSE lo + 1

RECURSIVE StripZeros(_, _)
StripZeros(m, e) ==
  IF m = 0 THEN [k |-> "num", m |-> 0, e |-> 0]
  ELSE IF m % 10 = 0 THEN StripZeros(m \div 10, e + 1)
  ELSE [k |-> "num", m |-> m, e |-> e]

\* the Number nearest to m * 10^e (m any integer), as the hardware rounds
Round(m, e, sticky) ==
  LET a == Abs(m)
      x == NumDigits(a) - Digits
  IN  IF x <= 0 THEN StripZeros(m, e)
      ELSE StripZeros(Sign(m) * RoundHalfEven(a, Pow10(x), sticky), e + x)

Num(i) == Round(i, 0, FALSE)

\* m * 10^e for a decimal literal of the source, e.g. 0.0001 = Dec(1, -4)
Dec(m, e) == Round(m, e, FALSE)

Min(i, j) == IF i < j THEN i ELSE j

FAdd(a, b) ==
  IF ~IsNum(a) \/ ~IsNum(b) THEN NaN
  ELSE IF a.m = 0 THEN b
  ELSE IF b.m = 0 THEN a
  ELSE LET e == Min(a.e, b.e)
       IN  Round(a.m * Pow10(a.e - e) + b.m * Pow10(b.e - e), e, FALSE)

FNeg(a) == IF IsNum(a) THEN [a EXCEPT !.m = -a.m] ELSE a

FSub(a, b) == FAdd(a, FNeg(b))

FMul(a, b) ==
  IF ~IsNum(a) \/ ~IsNum(b) THEN NaN
  ELSE Round(a.m * b.m, a.e + b.e, FALSE)

\* long division of q.r by d: one more quotient digit per step until the
\* quotient has Digits + 1 digits or the division is exact
RECURSIVE LongDiv(_, _, _, _)
LongDiv(q, r, d, e) ==
  IF r = 0 \/ q >= Pow10(Digits)
  THEN Round(q, e, r # 0)
  ELSE LongDiv(10 * q + ((10 * r) \div d), (10 * r) % d, d, e - 1)

FDiv(a, b) ==
  IF ~IsNum(a) \/ ~IsNum(b) THEN NaN
  ELSE IF b.m = 0 THEN (IF a.m = 0 THEN NaN ELSE Infinity)
  ELSE LET s == Sign(a.m) * Sign(b.m)
           x == Abs(a.m)
           d == Abs(b.m)
           n == LongDiv(x \div d, x % d, d, a.e - b.e)
       IN  IF s < 0 THEN FNeg(n) ELSE n

FAbs(a) == IF IsNum(a) /\ a.m < 0 THEN FNeg(a) ELSE a

\* a > b; any comparison with NaN is false
FGreater(a, b) ==
  /\ IsNum(a) /\ IsNum(b)
  /\ FSub(a, b).m > 0

FLess(a, b) == FGreater(b, a)

RECURSIVE FSum(_)
FSum(s) == IF s = <<>> THEN Num(0) ELSE FAdd(FSum(SubSeq(s, 1, Len(s) - 1)), s[Len(s)])

(***************************************************************************)
(* Strings are sequences of one-character strings; undefined is <<>>.     *)
(***************************************************************************)
Undefined == <<>>

LowerSeq == << "a", "b", "c", "d", "e", "f", "g", "h", "i", "j", "k", "l", "m",
               "n", "o", "p", "q", "r", "s", "t", "u", "v", "w", "x", "y", "z" >>

UpperSeq == << "A", "B", "C", "D", "E", "F", "G", "H", "I", "J", "K", "L", "M",
               "N", "O", "P", "Q", "R", "S", "T", "U", "V", "W", "X", "Y", "Z" >>

UpperLetters == {UpperSeq[i] : i \in 1..26}

Whitespace == {" ", "\t"}

ToUpperChar(c) ==
  IF \E i \in 1..26 : LowerSeq[i] = c
  THEN UpperSeq[CHOOSE i \in 1..26 : LowerSeq[i] = c]
  ELSE c

ToUpperCase(w) == [i \in 1..Len(w) |-> ToUpperChar(w[i])]

\* name.trim().split(/\s+/) without the empty parts: the words of name
RECURSIVE SplitWords(_, _, _)
SplitWords(s, cur, acc) ==
  IF s = <<>> THEN (IF cur = <<>> THEN acc ELSE Append(acc, cur))
  ELSE IF Head(s) \in Whitespace
       THEN SplitWords(Tail(s), <<>>, IF cur = <<>> THEN acc ELSE Append(acc, cur))
       ELSE SplitWords(Tail(s), Append(cur, Head(s)), acc)

Words(name) == SplitWords(name, <<>>, <<>>)

\* /^[A-Z]+$/.test(w)
IsUpperAZ(w) == Len(w) >= 1 /\ \A i \in 1..Len(w) : w[i] \in UpperLetters

\* a faulty variant: the last word is returned whatever its characters
extractLastWord(name) ==
  LET parts == Words(name)
  IN  IF Len(parts) < 2 THEN Undefined ELSE parts[Len(parts)]

extractSuffix(name) ==
  LET parts == Words(name)
      lastWord == parts[Len(parts)]
  IN  IF Len(parts) < 2 THEN Undefined
      ELSE IF lastWord = ToUpperCase(lastWord) /\ IsUpperAZ(lastWord) THEN lastWord
      ELSE Undefined

\* a faulty variant: any suffix on the account's name or groups counts as a match
accountMatchesAnySuffix(account, suffix) ==
  \/ extractSuffix(account.name) # Undefined
  \/ \E g \in 1..Len(account.groups) : extractSuffix(account.groups[g]) # Undefined

accountMatchesSuffix(account, suffix) ==
  \/ extractSuffix(account.name) = suffix
  \/ \E g \in 1..Len(account.groups) : extractSuffix(account.groups[g]) = suffix

\* s.trim()
RECURSIVE TrimLeft(_)
TrimLeft(s) == IF s # <<>> /\ Head(s) \in Whitespace THEN TrimLeft(Tail(s)) ELSE s

RECURSIVE TrimRight(_)
TrimRight(s) ==
  IF s # <<>> /\ s[Len(s)] \in Whitespace THEN TrimRight(SubSeq(s, 1, Len(s) - 1)) ELSE s

Trim(s) == TrimRight(TrimLeft(s))

\* s.split(','): one part more than there are commas, empty parts kept
RECURSIVE SplitComma(_, _, _)
SplitComma(s, cur, acc) ==
  IF s = <<>> THEN Append(acc, cur)
  ELSE IF Head(s) = "," THEN SplitComma(Tail(s), <<>>, Append(acc, cur))
  ELSE SplitComma(Tail(s), Append(cur, Head(s)), acc)

\* the elements of s at the positions in keep, in the order of s
RECURSIVE Select(_, _, _)
Select(s, keep, i) ==
  IF i > Len(s) THEN <<>>
  ELSE (IF i \in keep THEN <<s[i]>> ELSE <<>>) \o Select(s, keep, i + 1)

Filter(s, keep) == Select(s, keep, 1)

Range(s) == {s[i] : i \in 1..Len(s)}

(***************************************************************************)
(* The Bucket book: its accounts in the order getAccounts() lists them.   *)
(* An account: name (characters), norm (the normalized name, as the       *)
(* tokens between its underscores), type, percentage (the property:       *)
(* <<n>>, or Undefined), groups (the names of its groups).                *)
(***************************************************************************)
Number(percentage) == Num(percentage[1])

\* a faulty variant: the type of the account is not looked at
HasPercentage(account) == account.percentage # Undefined

IsBucketAccount(account) ==
  account.type = "ASSET" /\ account.percentage # Undefined

Null == [name |-> <<>>, norm |-> <<>>, type |-> "null", percentage |-> Undefined,
         groups |-> <<>>]

\* book.getAccount(name): the account of that exact name, or null
getAccount(book, name) ==
  IF \E i \in 1..Len(book) : book[i].name = name
  THEN book[CHOOSE i \in 1..Len(book) : book[i].name = name]
  ELSE Null

validatePercentages(book) ==
  LET counted == Filter(book, {i \in 1..Len(book) : IsBucketAccount(book[i])})
      total == FSum([i \in 1..Len(counted) |-> Number(counted[i].percentage)])
  IN  [isValid |-> total = Num(100), totalPercentage |-> total,
       accountCount |-> Len(counted)]

(***************************************************************************)
(* Remote identifiers.  The string `${prefix}${identifier}_${name}_${ts}` *)
(* is kept as the sequence of its tokens between underscores; a string    *)
(* starts with `${id}_` exactly if the tokens of id are a proper prefix   *)
(* of its tokens.                                                         *)
(***************************************************************************)
\* a faulty variant: the identifier carries no timestamp
buildRemoteIdUntimed(identifier, normalizedAccountName, isInitialization, timestamp) ==
  (IF isInitialization THEN <<"init">> ELSE <<>>)
    \o identifier \o normalizedAccountName \o <<"0">>

buildRemoteId(identifier, normalizedAccountName, isInitialization, timestamp) ==
  (IF isInitialization THEN <<"init">> ELSE <<>>)
    \o identifier \o normalizedAccountName \o <<ToString(timestamp)>>

startsWith(remoteId, glTransactionId) ==
  /\ Len(remoteId) > Len(glTransactionId)
  /\ SubSeq(remoteId, 1, Len(glTransactionId)) = glTransactionId

(***************************************************************************)
(* The three distribution strategies, up to their create loop: the        *)
(* result they return without creating anything, or the targets of the    *)
(* loop (account and amount, in order).                                   *)
(***************************************************************************)
\* an error message: its fixed text and the names interpolated into it
Error(message, names) == [message |-> message, names |-> names]

NoError == Error("", <<>>)

Failure(error) ==
  [success |-> FALSE, skipped |-> FALSE, error |-> error, targets |-> <<>>]

Targets(targets) ==
  [success |-> TRUE, skipped |-> FALSE, error |-> NoError, targets |-> targets]

Skipped ==
  [success |-> TRUE, skipped |-> TRUE, error |-> NoError, targets |-> <<>>]

\* a faulty variant: the percentage applied as a factor, the division by 100 forgotten
allBucketsAmountAsFactor(totalAmount, percentage) ==
  FMul(totalAmount, percentage)

allBucketsAmount(totalAmount, percentage) ==
  FMul(totalAmount, FDiv(percentage, Num(100)))

\* a faulty variant: the suffix and the override are not looked at
distributeToAllBucketsUnskipped(book, context) ==
  LET bucketAccounts ==
        Filter(book, {i \in 1..Len(book) : IsBucketAccount(book[i])})
  IN  Targets([i \in 1..Len(bucketAccounts) |->
        [account |-> bucketAccounts[i],
         percentage |-> Number(bucketAccounts[i].percentage),
         amount |-> allBucketsAmount(context.amount,
                                     Number(bucketAccounts[i].percentage))]])

distributeToAllBuckets(book, context) ==
  IF context.suffix # Undefined \/ context.bucketOverride # Undefined THEN Skipped
  ELSE LET bucketAccounts ==
             Filter(book, {i \in 1..Len(book) : IsBucketAccount(book[i])})
       IN  Targets([i \in 1..Len(bucketAccounts) |->
             [account |-> bucketAccounts[i],
              percentage |-> Number(bucketAccounts[i].percentage),
              amount |-> allBucketsAmount(context.amount,
                                          Number(bucketAccounts[i].percentage))]])

\* lines 219-236: renormalization of the matched percentages
recalculate(originals) ==
  LET sumOfOriginal == FSum(originals)
      recalculated == [i \in 1..Len(originals) |->
                         FMul(FDiv(originals[i], sumOfOriginal), Num(100))]
      sumRecalculated == FSum(recalculated)
      remainder == FSub(Num(100), sumRecalculated)
  IN  IF FGreater(FAbs(remainder), Dec(1, -4)) /\ Len(recalculated) > 0
      THEN [recalculated EXCEPT ![1] = FAdd(recalculated[1], remainder)]
      ELSE recalculated

\* a faulty variant: a suffix that matches no account is skipped silently
distributeToSuffixBucketsSilently(book, context) ==
  IF context.suffix = Undefined THEN Failure(Error("No suffix provided", <<>>))
  ELSE LET matchingAccounts ==
             Filter(book, {i \in 1..Len(book) :
                             /\ IsBucketAccount(book[i])
                             /\ accountMatchesSuffix(book[i], context.suffix)})
           percentages ==
             recalculate([i \in 1..Len(matchingAccounts) |->
                            Number(matchingAccounts[i].percentage)])
       IN  IF Len(matchingAccounts) = 0 THEN Skipped
           ELSE Targets([i \in 1..Len(matchingAccounts) |->
                  [account |-> matchingAccounts[i],
                   percentage |-> percentages[i],
                   amount |-> FMul(context.amount, FDiv(percentages[i], Num(100)))]])

distributeToSuffixBuckets(book, context) ==
  IF context.suffix = Undefined THEN Failure(Error("No suffix provided", <<>>))
  ELSE LET matchingAccounts ==
             Filter(book, {i \in 1..Len(book) :
                             /\ IsBucketAccount(book[i])
                             /\ accountMatchesSuffix(book[i], context.suffix)})
           percentages ==
             recalculate([i \in 1..Len(matchingAccounts) |->
                            Number(matchingAccounts[i].percentage)])
       IN  IF Len(matchingAccounts) = 0
           THEN Failure(Error("No accounts match suffix in bucket book", <<context.suffix>>))
           ELSE Targets([i \in 1..Len(matchingAccounts) |->
                  [account |-> matchingAccounts[i],
                   percentage |-> percentages[i],
                   amount |-> FMul(context.amount, FDiv(percentages[i], Num(100)))]])

\* a faulty variant: 100 / count applied as a factor, the division by 100 forgotten
overrideAmountAsFactor(totalAmount, count) ==
  FMul(totalAmount, FDiv(Num(100), Num(count)))

overrideAmount(totalAmount, count) ==
  FMul(totalAmount, FDiv(FDiv(Num(100), Num(count)), Num(100)))

\* a faulty variant: the lookup loop stops at the first name that does not resolve
missingNamesFirstOnly(book, accountNames) ==
  LET missing == {i \in 1..Len(accountNames) :
                    getAccount(book, accountNames[i]) = Null}
  IN  Filter(accountNames, {i \in missing : \A j \in missing : i <= j})

\* lines 317-324: the names that getAccount does not resolve
missingNames(book, accountNames) ==
  Filter(accountNames, {i \in 1..Len(accountNames) :
                          getAccount(book, accountNames[i]) = Null})

\* line 310: context.bucketOverride.split(',').map(name => name.trim())
parseOverride(bucketOverride) ==
  LET parts == SplitComma(bucketOverride, <<>>, <<>>)
  IN  [i \in 1..Len(parts) |-> Trim(parts[i])]

distributeToOverrideBuckets(book, context) ==
  IF context.bucketOverride = Undefined THEN Failure(Error("No bucket override provided", <<>>))
  ELSE LET accountNames == parseOverride(context.bucketOverride)
           found == Filter(accountNames, {i \in 1..Len(accountNames) :
                                            getAccount(book, accountNames[i]) # Null})
           bucketAccounts == [i \in 1..Len(found) |-> getAccount(book, found[i])]
           missingAccounts == missingNames(book, accountNames)
       IN  IF Len(missingAccounts) > 0
           THEN Failure(Error("Accounts not found", missingAccounts))
           ELSE Targets([i \in 1..Len(bucketAccounts) |->
                  [account |-> bucketAccounts[i],
                   percentage |-> FDiv(Num(100), Num(Len(bucketAccounts))),
                   amount |-> overrideAmount(context.amount, Len(bucketAccounts))]])

(***************************************************************************)
(* Bounds of the model.                                                   *)
(***************************************************************************)
MaxNow == 1

MaxInvocations == 2

MaxStored == 3

MaxPageSize == 2

MaxExpected == 2

MaxRetries == 2

MaxNameLen == 4

Procs == {1, 2}

(***************************************************************************)
(* State.                                                                 *)
(*  accounts  the Bucket book's accounts                                  *)
(*  txs       the Bucket book's transactions, by id (their position)      *)
(*  lag       the trashed transactions a read does not show trashed yet   *)
(*  now       Date.now()                                                  *)
(*  pageSize  the number of transactions the store puts in a page         *)
(*  serial    the number of invocations started                           *)
(*  inv       per invocation slot: the position and locals of the handler *)
(*            (or of the function called directly) running there          *)
(*  last      the event, response and outcome of the last request answered*)
(***************************************************************************)
VARIABLES accounts, txs, lag, now, pageSize, serial, inv, last

vars == <<accounts, txs, lag, now, pageSize, serial, inv, last>>

CarLONG == <<"C", "a", "r", " ", "L", "O", "N", "G">>

FunLONG == <<"F", "u", "n", " ", "L", "O", "N", "G">>

Trip == <<"T", "r", "i", "p">>

GoalsLONG == <<"G", "o", "a", "l", "s", " ", "L", "O", "N", "G">>

CarSHORT == <<"C", "a", "r", " ", "S", "H", "O", "R", "T">>

Other == <<"O", "t", "h", "e", "r">>

LoanLONG == <<"L", "o", "a", "n", " ", "L", "O", "N", "G">>

Savings == <<"S", "a", "v", "i", "n", "g", "s">>

Withdrawal == <<"W", "i", "t", "h", "d", "r", "a", "w", "a", "l">>

Ghost == <<"G", "h", "o", "s", "t">>

Nobody == <<"N", "o", "b", "o", "d", "y">>

LONG == <<"L", "O", "N", "G">>

SHORT == <<"S", "H", "O", "R", "T">>

QUICK == <<"Q", "U", "I", "C", "K">>

Account(name, norm, type, groups) ==
  [name |-> name, norm |-> norm, type |-> type, percentage |-> Undefined,
   groups |-> groups]

\* the five accounts whose percentage varies from book to book
BucketAccounts ==
  << Account(CarLONG, <<"car", "long">>, "ASSET", <<>>),
     Account(FunLONG, <<"fun", "long">>, "ASSET", <<>>),
     Account(Trip, <<"trip">>, "ASSET", <<GoalsLONG>>),
     Account(CarSHORT, <<"car", "short">>, "ASSET", <<>>),
     Account(Other, <<"other">>, "ASSET", <<>>) >>

\* a liability that carries a percentage, and the two clearing accounts
FixedAccounts ==
  << [Account(LoanLONG, <<"loan", "long">>, "LIABILITY", <<>>)
        EXCEPT !.percentage = <<10>>],
     Account(Savings, <<"savings">>, "INCOMING", <<>>),
     Account(Withdrawal, <<"withdrawal">>, "OUTGOING", <<>>) >>

\* a book from the percentages of the five bucket accounts (-1: none set)
Book(v) ==
  [i \in 1..5 |-> [BucketAccounts[i] EXCEPT
                      !.percentage = IF v[i] < 0 THEN Undefined ELSE <<v[i]>>]]
    \o FixedAccounts

Percentages ==
  { <<60, 40, 0, 0, 0>>, <<30, 30, 30, 10, 0>>, <<60, -1, -1, 40, 0>>,
    <<0, 0, 0, 60, 40>>, <<50, -1, 25, 25, -1>>, <<40, 40, 0, 0, 0>>,
    <<20, 30, 10, -1, -1>>, <<-1, -1, -1, 60, 40>> }

Books == {Book(v) : v \in Percentages}

TxIds == {<<"T1">>, <<"T2">>}

Dates == {"D1", "D2"}

Hashtag == "#bucket"

(***************************************************************************)
(* The webhook payload (webhook.ts reads it): the event type, the         *)
(* bkper-oauth-token header, the GL book with its bucket_book_id property *)
(* and the books of its collection, and the GL transaction with its two   *)
(* accounts.  A GL account: id and normalizedName as tokens, name as      *)
(* characters, savings the property ("" when absent), groups with name    *)
(* and savings property, type and archived flag.  An account event        *)
(* carries the account itself and previousAttributes, of which a key is   *)
(* Undefined when absent and <<value>> when present.                      *)
(***************************************************************************)
GlAccount(id, name, normalizedName, savings, groups) ==
  [id |-> id, name |-> name, normalizedName |-> normalizedName,
   savings |-> savings, groups |-> groups, type |-> "ASSET", archived |-> FALSE]

RDBLONG ==
  GlAccount(<<"A1">>, <<"R", "D", "B", " ", "L", "O", "N", "G">>, <<"rdb", "long">>,
            "true", <<>>)

Bank == GlAccount(<<"A2">>, <<"B", "a", "n", "k">>, <<"bank">>, "", <<>>)

Nest == GlAccount(<<"A3">>, <<"N", "e", "s", "t">>, <<"nest">>, "true", <<>>)

Pot ==
  GlAccount(<<"A4">>, <<"P", "o", "t">>, <<"pot">>, "",
            << [name |-> <<"R", "e", "s", "e", "r", "v", "e", " ", "S", "H", "O", "R", "T">>,
                savings |-> "true"] >>)

BucketBookId == "bucket-book"

GlBook ==
  [bucket_book_id |-> BucketBookId,
   books |-> << [id |-> "gl-book", bucket_hashtag |-> "",
                 bucket_income_acc |-> Undefined, bucket_withdrawal_acc |-> Undefined],
                [id |-> BucketBookId, bucket_hashtag |-> Hashtag,
                 bucket_income_acc |-> Undefined, bucket_withdrawal_acc |-> Undefined] >>]

Payload(type, id, date, amount, debitAccount, creditAccount, bucket) ==
  [type |-> type, oauthToken |-> TRUE, book |-> GlBook,
   transaction |-> [id |-> id, date |-> date, amount |-> amount,
                    description |-> "transfer", bucket |-> bucket,
                    creditAccount |-> creditAccount, debitAccount |-> debitAccount],
   account |-> GlAccount(Undefined, <<>>, <<>>, "", <<>>),
   previousAttributes |-> [savings |-> Undefined, active |-> Undefined]]

NoPayload == Payload("", <<>>, "", Num(0), Bank, Bank, Undefined)

NoContext ==
  [bucketHashtag |-> "", bucketIncomeAcc |-> <<>>, bucketWithdrawalAcc |-> <<>>,
   amount |-> Num(0), transactionId |-> <<>>, description |-> "", date |-> "",
   bucketOverride |-> Undefined, direction |-> "deposit", suffix |-> Undefined,
   fromAccount |-> <<>>, toAccount |-> <<>>, savingsAccountName |-> <<>>,
   savingsAccountId |-> <<>>, savingsAccountNormalizedName |-> <<>>,
   savingsGroupName |-> Undefined, isInitialization |-> FALSE]

accountHasSavings(account) == account.savings = "true"

accountHasSavingsFalse(account) == account.savings = "false"

\* a faulty variant: the last group with savings "true" instead of the first
findLastSavingsGroup(account) ==
  LET with == {g \in 1..Len(account.groups) : account.groups[g].savings = "true"}
  IN  IF with = {} THEN 0 ELSE CHOOSE g \in with : \A h \in with : g >= h

\* the index of the first group with savings "true", 0 if there is none
findSavingsGroup(account) ==
  LET with == {g \in 1..Len(account.groups) : account.groups[g].savings = "true"}
  IN  IF with = {} THEN 0 ELSE CHOOSE g \in with : \A h \in with : g <= h

\* the first suffix among the names of the groups of account
RECURSIVE groupSuffix(_, _)
groupSuffix(groups, g) ==
  IF g > Len(groups) THEN Undefined
  ELSE IF extractSuffix(groups[g].name) # Undefined THEN extractSuffix(groups[g].name)
  ELSE groupSuffix(groups, g + 1)

\* a faulty variant: the credited account is looked at before the debited one
savingsSideCreditFirst(debitAccount, creditAccount) ==
  LET debitGroup == IF accountHasSavingsFalse(debitAccount) THEN 0
                    ELSE findSavingsGroup(debitAccount)
      creditGroup == IF accountHasSavingsFalse(creditAccount) THEN 0
                     ELSE findSavingsGroup(creditAccount)
  IN  IF accountHasSavings(creditAccount) THEN <<"withdrawal", 0>>
      ELSE IF accountHasSavings(debitAccount) THEN <<"deposit", 0>>
      ELSE IF debitGroup # 0 THEN <<"deposit", debitGroup>>
      ELSE IF creditGroup # 0 THEN <<"withdrawal", creditGroup>>
      ELSE <<"none", 0>>

\* webhook.ts 103-135: the direction and the index of the savings group that
\* decided it (0: the account's own property did), <<"none", 0>> without savings
savingsSide(debitAccount, creditAccount) ==
  LET debitGroup == IF accountHasSavingsFalse(debitAccount) THEN 0
                    ELSE findSavingsGroup(debitAccount)
      creditGroup == IF accountHasSavingsFalse(creditAccount) THEN 0
                     ELSE findSavingsGroup(creditAccount)
  IN  IF accountHasSavings(debitAccount) THEN <<"deposit", 0>>
      ELSE IF accountHasSavings(creditAccount) THEN <<"withdrawal", 0>>
      ELSE IF debitGroup # 0 THEN <<"deposit", debitGroup>>
      ELSE IF creditGroup # 0 THEN <<"withdrawal", creditGroup>>
      ELSE <<"none", 0>>

\* a faulty variant: the suffix is derived whether or not there is an override
deriveSuffixDespiteOverride(bucketOverride, savingsAccount, savingsGroup) ==
  LET fromGroup == IF savingsGroup # 0
                   THEN extractSuffix(savingsAccount.groups[savingsGroup].name)
                   ELSE Undefined
      fromName == IF fromGroup # Undefined THEN fromGroup
                  ELSE extractSuffix(savingsAccount.name)
  IN  IF fromName # Undefined THEN fromName
      ELSE groupSuffix(savingsAccount.groups, 1)

\* a faulty variant: the account's own name is tried before the savings group
deriveSuffixNameFirst(bucketOverride, savingsAccount, savingsGroup) ==
  LET fromName == extractSuffix(savingsAccount.name)
      fromGroup == IF fromName # Undefined THEN fromName
                   ELSE IF savingsGroup # 0
                   THEN extractSuffix(savingsAccount.groups[savingsGroup].name)
                   ELSE Undefined
  IN  IF bucketOverride # Undefined THEN Undefined
      ELSE IF fromGroup # Undefined THEN fromGroup
      ELSE groupSuffix(savingsAccount.groups, 1)

\* webhook.ts 145-166: no suffix with a bucket override (an empty bucket
\* property is falsy, like an absent one); otherwise the suffix of the savings
\* group (index, 0 if the account's own property decided), else of the
\* account's name, else the first among the account's groups
deriveSuffix(bucketOverride, savingsAccount, savingsGroup) ==
  LET fromGroup == IF savingsGroup # 0
                   THEN extractSuffix(savingsAccount.groups[savingsGroup].name)
                   ELSE Undefined
      fromName == IF fromGroup # Undefined THEN fromGroup
                  ELSE extractSuffix(savingsAccount.name)
  IN  IF bucketOverride # Undefined THEN Undefined
      ELSE IF fromName # Undefined THEN fromName
      ELSE groupSuffix(savingsAccount.groups, 1)

detectSavings(payload) ==
  LET transaction == payload.transaction
      creditAccount == transaction.creditAccount
      debitAccount == transaction.debitAccount
      bucketBookId == payload.book.bucket_book_id
      found == {b \in 1..Len(payload.book.books) : payload.book.books[b].id = bucketBookId}
      bucketBook == payload.book.books[CHOOSE b \in found : \A c \in found : b <= c]
      how == savingsSide(debitAccount, creditAccount)
      savingsAccount == IF how[1] = "deposit" THEN debitAccount ELSE creditAccount
      bucketOverride == transaction.bucket
      suffix == deriveSuffix(bucketOverride, savingsAccount, how[2])
  IN  IF bucketBookId = "" \/ found = {} \/ how[1] = "none"
      THEN [isSavings |-> FALSE, context |-> NoContext]
      ELSE [isSavings |-> TRUE,
            context |->
              [bucketHashtag |-> bucketBook.bucket_hashtag,
               bucketIncomeAcc |-> IF bucketBook.bucket_income_acc = Undefined
                                   THEN Savings ELSE bucketBook.bucket_income_acc,
               bucketWithdrawalAcc |-> IF bucketBook.bucket_withdrawal_acc = Undefined
                                       THEN Withdrawal
                                       ELSE bucketBook.bucket_withdrawal_acc,
               amount |-> transaction.amount,
               transactionId |-> transaction.id,
               description |-> transaction.description,
               date |-> transaction.date,
               bucketOverride |-> bucketOverride,
               direction |-> how[1],
               suffix |-> suffix,
               fromAccount |-> creditAccount.name,
               toAccount |-> debitAccount.name,
               savingsAccountName |-> savingsAccount.name,
               savingsAccountId |-> savingsAccount.id,
               savingsAccountNormalizedName |-> savingsAccount.normalizedName,
               savingsGroupName |-> IF how[2] # 0
                                    THEN savingsAccount.groups[how[2]].name
                                    ELSE Undefined,
               isInitialization |-> FALSE]]

(***************************************************************************)
(* An invocation: the handler of one webhook request (mode "webhook"), or *)
(* one function of bucket.ts called directly (mode: its name).  pc is its *)
(* position, the other fields are its locals.                             *)
(***************************************************************************)
NoResult ==
  [success |-> FALSE, skipped |-> FALSE, error |-> NoError, transactionCount |-> 0,
   totalDistributed |-> Num(0), transactions |-> <<>>]

NoPercentages == [isValid |-> FALSE, totalPercentage |-> Num(0), accountCount |-> 0]

NoValidation ==
  [isBalanced |-> FALSE, glTotal |-> Num(0), bucketTotal |-> Num(0),
   difference |-> Num(0)]

NoResponse ==
  [status |-> 0, success |-> FALSE, error |-> NoError, action |-> "",
   trashedCount |-> 0, checkedCount |-> 0]

\* c.json({ success, error })
Json(success, error) ==
  [NoResponse EXCEPT !.status = 200, !.success = success, !.error = error]

\* `${hashtag} on:${date}`, or `gl_account_id:"${glAccountId}"`
NoQuery == [hashtag |-> "", date |-> "", glAccountId |-> Undefined]

Idle ==
  [pc |-> "idle", mode |-> "", serial |-> 0, event |-> NoPayload,
   context |-> NoContext,
   query |-> NoQuery, glTransactionId |-> <<>>, expectedCount |-> Undefined,
   cursor |-> 0, matching |-> <<>>, requests |-> 0, examined |-> 0,
   passed |-> {}, pending |-> <<>>, observed |-> {}, retryCount |-> 0,
   maxRetries |-> 0, rounds |-> 0, fetched |-> 0, glBook |-> <<>>, reports |-> <<>>,
   validation |-> NoPercentages,
   strategy |-> "none", targets |-> <<>>, todo |-> <<>>, transactionCount |-> 0,
   totalDistributed |-> Num(0), transactions |-> <<>>, result |-> NoResult,
   balanceValidation |-> NoValidation, response |-> NoResponse,
   isSavings |-> FALSE, name |-> <<>>, suffix |-> Undefined, balance |-> NaN,
   currentSavingsAccounts |-> <<>>, availableBucketAccounts |-> <<>>,
   distributions |-> <<>>]

\* the handler returns response
Respond(r, response) == [r EXCEPT !.pc = "done", !.response = response, !.todo = <<>>]

(***************************************************************************)
(* The create loop shared by the three strategies (bucket.ts 134-160,     *)
(* 257-282, 356-380): one transaction.post() per step.                    *)
(***************************************************************************)
\* a faulty variant: the sides of a deposit whatever the direction
NewTransactionAsDeposit(context, strategy, target, by) ==
  LET remoteIdIdentifier ==
        IF strategy # "override" /\ context.isInitialization
        THEN context.savingsAccountId ELSE context.transactionId
      remoteId ==
        buildRemoteId(remoteIdIdentifier, target.account.norm,
                      strategy # "override" /\ context.isInitialization, now)
  IN  [remoteIds |-> <<remoteId>>,
       date |-> context.date,
       amount |-> target.amount,
       description |-> [base |-> context.description,
                        bucket |-> context.bucketHashtag,
                        gl |-> context.savingsAccountNormalizedName],
       gl_account_id |-> context.savingsAccountId,
       creditAccount |-> getAccount(accounts, context.bucketIncomeAcc).name,
       debitAccount |-> target.account.name,
       trashed |-> FALSE, checked |-> FALSE, by |-> by]

NewTransaction(context, strategy, target, by) ==
  LET remoteIdIdentifier ==
        IF strategy # "override" /\ context.isInitialization
        THEN context.savingsAccountId ELSE context.transactionId
      remoteId ==
        buildRemoteId(remoteIdIdentifier, target.account.norm,
                      strategy # "override" /\ context.isInitialization, now)
  IN  [remoteIds |-> <<remoteId>>,
       date |-> context.date,
       amount |-> target.amount,
       description |-> [base |-> context.description,
                        bucket |-> context.bucketHashtag,
                        gl |-> context.savingsAccountNormalizedName],
       gl_account_id |-> context.savingsAccountId,
       creditAccount |-> IF context.direction = "deposit"
                         THEN getAccount(accounts, context.bucketIncomeAcc).name
                         ELSE target.account.name,
       debitAccount |-> IF context.direction = "deposit"
                        THEN target.account.name
                        ELSE getAccount(accounts, context.bucketWithdrawalAcc).name,
       trashed |-> FALSE, checked |-> FALSE, by |-> by]

Strategy(mode) ==
  CASE mode = "distributeToAllBuckets" -> "all"
    [] mode = "distributeToSuffixBuckets" -> "suffix"
    [] mode = "distributeToOverrideBuckets" -> "override"
    [] OTHER -> "none"

Plan(strategy, book, context) ==
  CASE strategy = "all" -> distributeToAllBuckets(book, context)
    [] strategy = "suffix" -> distributeToSuffixBuckets(book, context)
    [] strategy = "override" -> distributeToOverrideBuckets(book, context)

\* the DistributionResult a strategy returns without entering its loop
Returned(plan) ==
  [success |-> plan.success, skipped |-> plan.skipped, error |-> plan.error,
   transactionCount |-> 0, totalDistributed |-> Num(0), transactions |-> <<>>]

DirectModes ==
  {"distributeToAllBuckets", "distributeToSuffixBuckets", "distributeToOverrideBuckets"}

\* the invocation r once its strategy has returned result: a direct call is
\* over; the handler (index.ts 513-516, 543-546) answers the failure of the
\* suffix and override strategies and goes on to validate the balances
Leave(r, result) ==
  LET left == [r EXCEPT !.result = result, !.todo = <<>>]
  IN  IF r.mode # "webhook" THEN [left EXCEPT !.pc = "returned"]
      ELSE IF r.strategy # "all" /\ ~result.success
           THEN Respond(left, Json(FALSE, result.error))
      ELSE [left EXCEPT !.pc = "balance"]

\* the invocation r entering strategy: the checks before the loop, then the loop
Enter(strategy, r) ==
  LET plan == Plan(strategy, accounts, r.context)
  IN  IF plan.targets = <<>>
      THEN Leave([r EXCEPT !.strategy = strategy], Returned(plan))
      ELSE [r EXCEPT !.pc = "create", !.strategy = strategy,
                     !.targets = plan.targets, !.todo = plan.targets]

Create(p) ==
  LET r == inv[p]
      target == Head(r.todo)
      posted == [r EXCEPT !.todo = Tail(r.todo),
                          !.transactions = Append(@, Len(txs) + 1),
                          !.transactionCount = @ + 1,
                          !.totalDistributed = FAdd(@, target.amount)]
  IN  /\ r.pc = "create"
      /\ txs' = Append(txs, NewTransaction(r.context, r.strategy, target, r.serial))
      /\ inv' = [inv EXCEPT ![p] =
                   IF posted.todo # <<>> THEN posted
                   ELSE Leave(posted,
                          [success |-> TRUE, skipped |-> FALSE, error |-> NoError,
                           transactionCount |-> posted.transactionCount,
                           totalDistributed |-> posted.totalDistributed,
                           transactions |-> posted.transactions])]
      /\ UNCHANGED <<accounts, lag, now, pageSize, serial, last>>

\* transaction.post() rejects: the exception leaves the strategy and its
\* caller; the handler does not catch it and the request ends with status 500
CreateFails(p) ==
  /\ inv[p].pc = "create"
  /\ inv' = [inv EXCEPT ![p] =
               IF inv[p].mode = "webhook"
               THEN Respond(inv[p], [NoResponse EXCEPT !.status = 500])
               ELSE [inv[p] EXCEPT !.pc = "threw"]]
  /\ UNCHANGED <<accounts, txs, lag, now, pageSize, serial, last>>

\* Date.now() advances
Tick ==
  /\ now < MaxNow
  /\ now' = now + 1
  /\ UNCHANGED <<accounts, txs, lag, pageSize, serial, inv, last>>

\* a faulty variant: the strategy is entered whatever the validation says
distributeUnvalidated(r) ==
  Enter(IF r.context.suffix # Undefined THEN "suffix"
        ELSE IF r.context.bucketOverride # Undefined THEN "override"
        ELSE "all", [r EXCEPT !.validation = validatePercentages(accounts)])

\* index.ts 497-569 (163-182 and 293-312 for an initialization): the
\* percentages are validated, then the strategy is chosen
distribute(r) ==
  LET validation == validatePercentages(accounts)
  IN  IF ~validation.isValid
      THEN Respond([r EXCEPT !.validation = validation], Json(FALSE,
                           Error(IF r.context.isInitialization
                                 THEN "Cannot initialize: bucket percentages do not sum to 100%"
                                 ELSE "Cannot distribute: bucket percentages do not sum to 100%",
                                 <<>>)))
      ELSE Enter(IF r.context.suffix # Undefined THEN "suffix"
                 ELSE IF r.context.bucketOverride # Undefined THEN "override"
                 ELSE "all", [r EXCEPT !.validation = validation])

\* the handler reads the Bucket book (index.ts 454) and distributes
Distribute(p) ==
  /\ inv[p].pc = "distribute"
  /\ inv' = [inv EXCEPT ![p] = distribute(inv[p])]
  /\ UNCHANGED <<accounts, txs, lag, now, pageSize, serial, last>>

(***************************************************************************)
(* The store as the Bkper API shows it.  A read shows a transaction       *)
(* trashed once its trashing has propagated.  listTransactions(query)     *)
(* lists the untrashed transactions of the query's date whose description *)
(* carries the hashtag (any, for an empty hashtag), pageSize at a time; a *)
(* cursor is an offset into that list.                                    *)
(***************************************************************************)
ShownTrashed(id) == txs[id].trashed /\ id \notin lag

\* a faulty variant: the query by gl_account_id is bound to the query's date
QueryResultOnDate(query) ==
  Filter([i \in 1..Len(txs) |-> i],
         {i \in 1..Len(txs) :
            /\ ~ShownTrashed(i)
            /\ txs[i].date = query.date
            /\ IF query.glAccountId # Undefined
               THEN txs[i].gl_account_id = query.glAccountId
               ELSE \/ query.hashtag = ""
                    \/ txs[i].description.bucket = query.hashtag})

QueryResult(query) ==
  Filter([i \in 1..Len(txs) |-> i],
         {i \in 1..Len(txs) :
            /\ ~ShownTrashed(i)
            /\ IF query.glAccountId # Undefined
               THEN txs[i].gl_account_id = query.glAccountId
               ELSE /\ txs[i].date = query.date
                    /\ \/ query.hashtag = ""
                       \/ txs[i].description.bucket = query.hashtag})

Page(all, cursor) == SubSeq(all, cursor + 1, Min(cursor + pageSize, Len(all)))

(***************************************************************************)
(* findBucketTransactionsByGlId (bucket.ts 401-446): one listTransactions *)
(* and the scan of its page per step.                                     *)
(***************************************************************************)
\* a faulty variant: the inner loop goes on after a remote id has qualified
qualifyingWithoutBreak(remoteIds, glTransactionId) ==
  Filter(remoteIds, {k \in 1..Len(remoteIds) : startsWith(remoteIds[k], glTransactionId)})

\* lines 424-433: the remote ids the inner loop pushes the transaction for:
\* the first that starts with the prefix, the break of line 431 ends the loop
qualifying(remoteIds, glTransactionId) ==
  LET hits == {k \in 1..Len(remoteIds) : startsWith(remoteIds[k], glTransactionId)}
  IN  IF hits = {} THEN <<>>
      ELSE <<remoteIds[CHOOSE k \in hits : \A h \in hits : k <= h]>>

\* a faulty variant: the search stops once the matches exceed expectedCount
reachedBeyond(expectedCount, length) ==
  expectedCount # Undefined /\ expectedCount[1] # 0 /\ length > expectedCount[1]

\* line 428: expectedCount && matchingTransactions.length >= expectedCount
reached(expectedCount, length) ==
  expectedCount # Undefined /\ expectedCount[1] # 0 /\ length >= expectedCount[1]

\* lines 421-435: the loop over the transactions of a page, from item i on
RECURSIVE ScanItems(_, _, _, _, _, _)
ScanItems(items, i, glTransactionId, expectedCount, matching, examined) ==
  IF i > Len(items)
  THEN [matching |-> matching, returned |-> FALSE, examined |-> examined]
  ELSE LET pushes == qualifying(txs[items[i]].remoteIds, glTransactionId)
           pushed == matching \o [k \in 1..Len(pushes) |-> items[i]]
       IN  IF pushes # <<>> /\ reached(expectedCount, Len(matching) + 1)
           THEN [matching |-> Append(matching, items[i]), returned |-> TRUE,
                 examined |-> examined + 1]
           ELSE ScanItems(items, i + 1, glTransactionId, expectedCount, pushed,
                          examined + 1)

\* a faulty variant: a deleted transaction is redistributed like an updated one
AfterCleanupRedistributes(r, trashedCount) ==
  LET left == [r EXCEPT !.rounds = 0, !.fetched = 0]
  IN  IF r.mode = "verifyTransactionsTrashed" THEN [r EXCEPT !.pc = "returned"]
      ELSE IF r.event.type \in {"ACCOUNT_UPDATED", "ACCOUNT_DELETED"}
      THEN Respond(left, [Json(TRUE, NoError) EXCEPT !.trashedCount = trashedCount,
                                                     !.action = r.response.action])
      ELSE [left EXCEPT !.pc = "distribute", !.response.trashedCount = trashedCount]

\* verifyTransactionsTrashed returns to its direct caller, or
\* cleanupBucketTransactions returns trashedCount to the handler (index.ts
\* 459-486), where the counters of the verification are gone
AfterCleanup(r, trashedCount) ==
  LET left == [r EXCEPT !.rounds = 0, !.fetched = 0]
  IN  IF r.mode = "verifyTransactionsTrashed" THEN [r EXCEPT !.pc = "returned"]
      ELSE IF r.event.type \in {"TRANSACTION_DELETED", "ACCOUNT_UPDATED",
                                 "ACCOUNT_DELETED"}
      THEN Respond(left, [Json(TRUE, NoError) EXCEPT !.trashedCount = trashedCount,
                                                     !.action = r.response.action])
      ELSE [left EXCEPT !.pc = "distribute", !.response.trashedCount = trashedCount]

\* findBucketTransactionsByGlId returns matching: to its direct caller, or to
\* cleanupBucketTransactions (lines 548-553)
Found(r, matching) ==
  LET found == [r EXCEPT !.matching = matching]
  IN  IF r.mode = "findBucketTransactionsByGlId" THEN [found EXCEPT !.pc = "returned"]
      ELSE IF Len(matching) = 0 THEN AfterCleanup(found, 0)
      ELSE [found EXCEPT !.pc = "trash"]

\* the loop body of lines 414-443 on the page items; cursor tells whether the
\* page carries a cursor
Scanned(r, items, scan, cursor) ==
  IF Len(items) = 0 THEN Found(r, r.matching)
  ELSE IF scan.returned \/ ~cursor
       THEN Found([r EXCEPT !.examined = scan.examined], scan.matching)
  ELSE [r EXCEPT !.examined = scan.examined, !.matching = scan.matching,
                 !.cursor = @ + pageSize]

\* a page of findBucketTransactionsByGlId is scanned; one of
\* findBucketTransactionsByGlAccountId is pushed whole (line 589)
Listed(r, items, cursor) ==
  Scanned([r EXCEPT !.requests = @ + 1], items,
          IF r.query.glAccountId # Undefined
          THEN [matching |-> r.matching \o items, returned |-> FALSE,
                examined |-> r.examined + Len(items)]
          ELSE ScanItems(items, 1, r.glTransactionId, r.expectedCount, r.matching,
                         r.examined),
          cursor)

\* whether a page of all from offset on may carry a cursor (TRUE) or none
\* (FALSE): one if more follows, none if the page is not full; a full last
\* page may carry one or not
Cursors(all, offset) ==
  IF offset + pageSize < Len(all) THEN {TRUE}
  ELSE IF offset + pageSize = Len(all) THEN {TRUE, FALSE}
  ELSE {FALSE}

Search(p) ==
  /\ inv[p].pc = "search"
  /\ \E cursor \in Cursors(QueryResult(inv[p].query), inv[p].cursor) :
       inv' = [inv EXCEPT ![p] =
                 Listed(inv[p], Page(QueryResult(inv[p].query), inv[p].cursor), cursor)]
  /\ UNCHANGED <<accounts, txs, lag, now, pageSize, serial, last>>

(***************************************************************************)
(* cleanupBucketTransactions (bucket.ts 533-561): the batch trash, then   *)
(* verifyTransactionsTrashed (492-531), one round of reads per step.      *)
(***************************************************************************)
VERIFY_MAX_RETRIES == 5

\* book.batchTrashTransactions(bucketTransactions, true): the transactions are
\* unchecked and trashed; reads show it at once, or only after propagation
Trash(p) ==
  LET r == inv[p]
      ids == Range(r.matching)
  IN  /\ r.pc = "trash"
      /\ txs' = [i \in 1..Len(txs) |->
                   IF i \in ids THEN [txs[i] EXCEPT !.trashed = TRUE, !.checked = FALSE]
                   ELSE txs[i]]
      /\ \E late \in {{}, {i \in ids : ~txs[i].trashed}} : lag' = lag \cup late
      /\ inv' = [inv EXCEPT ![p] =
                   [r EXCEPT !.pc = "verify", !.passed = ids, !.pending = r.matching,
                             !.retryCount = 0, !.maxRetries = VERIFY_MAX_RETRIES,
                             !.rounds = 0, !.fetched = 0]]
      /\ UNCHANGED <<accounts, now, pageSize, serial, last>>

\* the trashing of a transaction reaches the reads, the oldest first
Propagate ==
  /\ lag # {}
  /\ lag' = lag \ {CHOOSE id \in lag : \A other \in lag : id <= other}
  /\ UNCHANGED <<accounts, txs, now, pageSize, serial, inv, last>>

\* a faulty variant: the loop gives up after its first round
keepVerifyingOnce(pendingIds, retryCount, maxRetries) ==
  Len(pendingIds) > 0 /\ retryCount < 1

\* a faulty variant: the loop allows one retry more than maxRetries
keepVerifyingOnceMore(pendingIds, retryCount, maxRetries) ==
  Len(pendingIds) > 0 /\ retryCount <= maxRetries + 1

\* line 506: while (pendingIds.length > 0 && retryCount <= maxRetries)
keepVerifying(pendingIds, retryCount, maxRetries) ==
  Len(pendingIds) > 0 /\ retryCount <= maxRetries

\* one round of lines 506-528 that leaves stillPending; rounds and fetched
\* count the rounds and the book.getTransaction calls of the function
Verified(r, stillPending) ==
  LET seen == [r EXCEPT !.observed = @ \cup (Range(r.pending) \ Range(stillPending)),
                        !.pending = stillPending,
                        !.retryCount = IF Len(stillPending) = 0 THEN @ ELSE @ + 1,
                        !.rounds = @ + 1,
                        !.fetched = @ + Len(r.pending)]
  IN  IF keepVerifying(seen.pending, seen.retryCount, seen.maxRetries) THEN seen
      ELSE AfterCleanup(seen, Len(r.matching))

VerifyRound(p) ==
  /\ inv[p].pc = "verify"
  /\ inv' = [inv EXCEPT ![p] =
               Verified(inv[p],
                        Filter(inv[p].pending,
                               {k \in 1..Len(inv[p].pending) :
                                  /\ inv[p].pending[k] \in DOMAIN txs
                                  /\ ~ShownTrashed(inv[p].pending[k])}))]
  /\ UNCHANGED <<accounts, txs, lag, now, pageSize, serial, last>>

(***************************************************************************)
(* validateBalances (bucket.ts 711-725) and the check that follows it     *)
(* (index.ts 520-533, 550-563, 573-586).                                  *)
(***************************************************************************)
\* the cumulative balance of a bucket account: what its untrashed entries
\* debit less what they credit
Balance(name) ==
  FSum([i \in 1..Len(txs) |->
          IF txs[i].trashed THEN Num(0)
          ELSE IF txs[i].debitAccount = name THEN txs[i].amount
          ELSE IF txs[i].creditAccount = name THEN FNeg(txs[i].amount)
          ELSE Num(0)])

getBucketTotal ==
  LET bucketAccounts ==
        Filter(accounts, {i \in 1..Len(accounts) : IsBucketAccount(accounts[i])})
  IN  FSum([i \in 1..Len(bucketAccounts) |-> Balance(bucketAccounts[i].name)])

\* the totals getGlSavingsTotal may read from the GL book, which the engine
\* does not write: the bucket total, or off it by 0.005 or by 1
GlTotals(bucketTotal) ==
  IF IsNum(bucketTotal)
  THEN {bucketTotal, FAdd(bucketTotal, Dec(5, -3)), FAdd(bucketTotal, Num(1))}
  ELSE {Num(0)}

\* getGlSavingsTotal (bucket.ts 641-668) on a GL book given as its accounts
\* with their cumulative balances: the accounts whose own savings property is
\* "true" are summed, 0 if there is none
getGlSavingsTotal(glBook) ==
  LET savingsAccounts ==
        Filter(glBook, {i \in 1..Len(glBook) : glBook[i].account.savings = "true"})
  IN  IF Len(savingsAccounts) = 0 THEN Num(0)
      ELSE FSum([i \in 1..Len(savingsAccounts) |-> savingsAccounts[i].balance])

\* the getBalancesReport calls of validateBalances: lines 650-659 for the GL
\* book, 684-693 for the Bucket book
BalanceReports(glBook) ==
  (IF \E i \in 1..Len(glBook) : glBook[i].account.savings = "true"
   THEN <<"gl">> ELSE <<>>)
  \o (IF \E i \in 1..Len(accounts) : IsBucketAccount(accounts[i])
      THEN <<"bucket">> ELSE <<>>)

\* a faulty variant: a difference of exactly the tolerance counts as balanced
validateBalancesInclusive(glTotal, bucketTotal) ==
  [isBalanced |-> ~FGreater(FAbs(FSub(glTotal, bucketTotal)), Dec(1, -2)),
   glTotal |-> glTotal, bucketTotal |-> bucketTotal,
   difference |-> FSub(glTotal, bucketTotal)]

validateBalances(glTotal, bucketTotal) ==
  [isBalanced |-> FLess(FAbs(FSub(glTotal, bucketTotal)), Dec(1, -2)),
   glTotal |-> glTotal, bucketTotal |-> bucketTotal,
   difference |-> FSub(glTotal, bucketTotal)]

\* a faulty variant: the entries are checked whatever the balances
ValidatedRegardless(r, balanceValidation) ==
  IF Len(r.result.transactions) > 0
  THEN [r EXCEPT !.pc = "check", !.balanceValidation = balanceValidation]
  ELSE Respond([r EXCEPT !.balanceValidation = balanceValidation],
               [Json(TRUE, NoError) EXCEPT !.trashedCount = r.response.trashedCount,
                                          !.action = r.response.action])

\* index.ts 526-535: the entries are checked only if the balances match
Validated(r, balanceValidation) ==
  IF balanceValidation.isBalanced /\ Len(r.result.transactions) > 0
  THEN [r EXCEPT !.pc = "check", !.balanceValidation = balanceValidation]
  ELSE Respond([r EXCEPT !.balanceValidation = balanceValidation],
               [Json(TRUE, NoError) EXCEPT !.trashedCount = r.response.trashedCount,
                                          !.action = r.response.action])

Balanced(r, bucketTotal) ==
  {Validated(r, validateBalances(glTotal, bucketTotal)) : glTotal \in GlTotals(bucketTotal)}

ValidateBalances(p) ==
  /\ inv[p].pc = "balance"
  /\ \E validated \in Balanced(inv[p], getBucketTotal) :
       inv' = [inv EXCEPT ![p] = validated]
  /\ UNCHANGED <<accounts, txs, lag, now, pageSize, serial, last>>

\* bucketBook.batchCheckTransactions(distribution.transactions)
Check(p) ==
  LET r == inv[p]
      ids == Range(r.result.transactions)
  IN  /\ r.pc = "check"
      /\ txs' = [i \in 1..Len(txs) |->
                   IF i \in ids THEN [txs[i] EXCEPT !.checked = TRUE] ELSE txs[i]]
      /\ inv' = [inv EXCEPT ![p] =
                   Respond(r, [Json(TRUE, NoError) EXCEPT
                                 !.trashedCount = r.response.trashedCount,
                                 !.action = r.response.action,
                                 !.checkedCount = Len(r.result.transactions)])]
      /\ UNCHANGED <<accounts, lag, now, pageSize, serial, last>>

(***************************************************************************)
(* The handler of POST /webhook (index.ts 15-589; the handler of POST /,  *)
(* lines 591-1162, has the same body), up to its first request to Bkper.  *)
(***************************************************************************)
TransactionEvents ==
  {"TRANSACTION_POSTED", "TRANSACTION_UPDATED", "TRANSACTION_DELETED",
   "TRANSACTION_UNTRASHED"}

\* webhook.ts 62-75
extractSuffixFromAccount(account) ==
  IF extractSuffix(account.name) # Undefined THEN extractSuffix(account.name)
  ELSE groupSuffix(account.groups, 1)

\* new Date().toISOString().split('T')[0]: the requests arrive on one day
Today == "D1"

\* index.ts 141-160 and 271-290: the context of an initialization
initContext(payload, balance, description) ==
  LET account == payload.account
      found == {b \in 1..Len(payload.book.books) :
                  payload.book.books[b].id = payload.book.bucket_book_id}
      bucketBook == payload.book.books[CHOOSE b \in found : \A c \in found : b <= c]
  IN  [NoContext EXCEPT
         !.bucketHashtag = bucketBook.bucket_hashtag,
         !.bucketIncomeAcc = IF bucketBook.bucket_income_acc = Undefined
                             THEN Savings ELSE bucketBook.bucket_income_acc,
         !.bucketWithdrawalAcc = IF bucketBook.bucket_withdrawal_acc = Undefined
                                 THEN Withdrawal ELSE bucketBook.bucket_withdrawal_acc,
         !.amount = balance,
         !.transactionId = account.id,
         !.description = description,
         !.date = Today,
         !.bucketOverride = Undefined,
         !.direction = "deposit",
         !.suffix = extractSuffixFromAccount(account),
         !.fromAccount = account.name,
         !.toAccount = account.name,
         !.savingsAccountName = account.name,
         !.savingsAccountId = account.id,
         !.savingsAccountNormalizedName = account.normalizedName,
         !.isInitialization = TRUE]

\* index.ts 65-83, 351-369, 407-425: the token is read, then
\* cleanupBucketTransactionsForAccount searches by gl_account_id
accountCleanup(r, payload, action) ==
  IF ~payload.oauthToken
  THEN Respond(r, Json(FALSE, Error("No OAuth token", <<>>)))
  ELSE [r EXCEPT !.pc = "search",
                 !.query = [NoQuery EXCEPT !.glAccountId = payload.account.id],
                 !.response.action = action]

\* index.ts 93-116, 223-246: only an ASSET account is initialized; the token
\* is read, then the balance of the account is fetched from the GL book
initialization(r, payload, action) ==
  IF payload.account.type # "ASSET" THEN Respond(r, Json(TRUE, NoError))
  ELSE IF ~payload.oauthToken
       THEN Respond(r, Json(FALSE, Error("No OAuth token", <<>>)))
  ELSE [r EXCEPT !.pc = "fetch", !.response.action = action]

\* index.ts 24-378
accountUpdated(r, payload) ==
  LET account == payload.account
      previousSavings == payload.previousAttributes.savings
      currentSavings == account.savings
      currentArchived == account.archived = TRUE
      archivedStatusChanged == payload.previousAttributes.active # Undefined
      previousArchived == payload.previousAttributes.active = <<"false">>
      savingsPropertyChanged == payload.previousAttributes.savings # Undefined
  IN  IF account.id = Undefined THEN Respond(r, Json(TRUE, NoError))
      ELSE IF payload.book.bucket_book_id = "" THEN Respond(r, Json(TRUE, NoError))
      ELSE IF /\ archivedStatusChanged /\ currentArchived /\ ~previousArchived
              /\ currentSavings = "true"
           THEN accountCleanup(r, payload, "archive_cleanup")
      ELSE IF /\ archivedStatusChanged /\ ~currentArchived /\ previousArchived
              /\ currentSavings = "true"
           THEN initialization(r, payload, "unarchive_initialization")
      ELSE IF /\ savingsPropertyChanged /\ currentSavings = "true"
              /\ previousSavings # <<"true">> /\ ~currentArchived
           THEN initialization(r, payload, "initialization")
      ELSE IF /\ savingsPropertyChanged /\ previousSavings = <<"true">>
              /\ currentSavings # "true"
           THEN accountCleanup(r, payload, "cleanup")
      ELSE Respond(r, Json(TRUE, NoError))

\* index.ts 381-429
accountDeleted(r, payload) ==
  IF payload.account.id = Undefined THEN Respond(r, Json(TRUE, NoError))
  ELSE IF payload.account.savings # "true" THEN Respond(r, Json(TRUE, NoError))
  ELSE IF payload.book.bucket_book_id = "" THEN Respond(r, Json(TRUE, NoError))
  ELSE accountCleanup(r, payload, "cleanup")

\* the balances the GL book may report for the account of an initialization
AccountBalances == {Num(0), Num(100), FNeg(Num(50))}

\* a faulty variant: the initialization goes on whatever the balance
FetchedAnyBalance(r, balance) ==
  [r EXCEPT !.pc = "distribute",
            !.balance = balance,
            !.context =
              initContext(r.event, balance,
                          IF r.response.action = "initialization"
                          THEN "Initial balance" ELSE "Balance after unarchive")]

\* index.ts 116-160, 246-290: the balance read from the GL book; nothing is
\* initialized unless it is positive
Fetched(r, balance) ==
  IF ~FGreater(balance, Num(0))
  THEN Respond([r EXCEPT !.balance = balance], Json(TRUE, NoError))
  ELSE [r EXCEPT !.pc = "distribute",
                 !.balance = balance,
                 !.context =
                   initContext(r.event, balance,
                               IF r.response.action = "initialization"
                               THEN "Initial balance" ELSE "Balance after unarchive")]

FetchBalance(p) ==
  /\ inv[p].pc = "fetch"
  /\ \E balance \in AccountBalances :
       inv' = [inv EXCEPT ![p] = Fetched(inv[p], balance)]
  /\ UNCHANGED <<accounts, txs, lag, now, pageSize, serial, last>>

\* a faulty variant: the handler goes on whatever detectSavings returned
HandleUndetected(r, payload) ==
  LET result == detectSavings(payload)
      detected == [r EXCEPT !.context = result.context]
  IN  IF payload.type = "ACCOUNT_UPDATED" THEN accountUpdated(r, payload)
      ELSE IF payload.type = "ACCOUNT_DELETED" THEN accountDeleted(r, payload)
      ELSE IF ~payload.oauthToken
           THEN Respond(detected, Json(FALSE, Error("No OAuth token", <<>>)))
      ELSE IF payload.type \in {"TRANSACTION_DELETED", "TRANSACTION_UPDATED"}
           THEN [detected EXCEPT
                   !.pc = "search",
                   !.query = [NoQuery EXCEPT !.hashtag = result.context.bucketHashtag,
                                             !.date = result.context.date],
                   !.glTransactionId = result.context.transactionId,
                   !.expectedCount = Undefined]
      ELSE [detected EXCEPT !.pc = "distribute"]

Handle(r, payload) ==
  LET result == detectSavings(payload)
      detected == [r EXCEPT !.context = result.context]
  IN  IF payload.type = "ACCOUNT_UPDATED" THEN accountUpdated(r, payload)
      ELSE IF payload.type = "ACCOUNT_DELETED" THEN accountDeleted(r, payload)
      ELSE IF ~result.isSavings THEN Respond(r, Json(TRUE, NoError))
      ELSE IF ~payload.oauthToken
           THEN Respond(detected, Json(FALSE, Error("No OAuth token", <<>>)))
      ELSE IF payload.type \in {"TRANSACTION_DELETED", "TRANSACTION_UPDATED"}
           THEN [detected EXCEPT
                   !.pc = "search",
                   !.query = [NoQuery EXCEPT !.hashtag = result.context.bucketHashtag,
                                             !.date = result.context.date],
                   !.glTransactionId = result.context.transactionId,
                   !.expectedCount = Undefined]
      ELSE [detected EXCEPT !.pc = "distribute"]

\* the untrashed entries as a multiset: each (debit account, credit account,
\* amount, remote ids without their timestamp) with its multiplicity
Entry(i) ==
  <<txs[i].debitAccount, txs[i].creditAccount, txs[i].amount,
    [k \in 1..Len(txs[i].remoteIds) |->
       SubSeq(txs[i].remoteIds[k], 1, Len(txs[i].remoteIds[k]) - 1)]>>

Untrashed == {i \in 1..Len(txs) : ~txs[i].trashed}

UntrashedEntries ==
  {<<e, Cardinality({i \in Untrashed : Entry(i) = e})>> : e \in {Entry(i) : i \in Untrashed}}

NoLast == [event |-> NoPayload, entries |-> {}, response |-> NoResponse]

Receive(p, payload) ==
  /\ inv[p].pc = "idle"
  /\ serial < MaxInvocations
  /\ serial' = serial + 1
  /\ inv' = [inv EXCEPT ![p] =
               Handle([Idle EXCEPT !.mode = "webhook", !.serial = serial + 1,
                                   !.event = payload], payload)]
  /\ UNCHANGED <<accounts, txs, lag, now, pageSize, last>>

\* the response is sent; last keeps the event, the response and the
\* untrashed entries the request leaves
Finish(p) ==
  /\ inv[p].pc = "done"
  /\ last' = [event |-> inv[p].event, entries |-> UntrashedEntries,
              response |-> inv[p].response]
  /\ inv' = [inv EXCEPT ![p] = Idle]
  /\ UNCHANGED <<accounts, txs, lag, now, pageSize, serial>>

(***************************************************************************)
(* The strategies called directly, on a book and a context drawn from     *)
(* bounded sets.                                                          *)
(***************************************************************************)
Amounts == {Num(100), Num(90), Num(1000)}

CarLONGcommaOther == CarLONG \o <<",", " ">> \o Other

GhostCommaCarLONGcommaNobody ==
  Ghost \o <<",">> \o CarLONG \o <<" ", ",", " ">> \o Nobody

ThreeNames == CarLONG \o <<",">> \o CarSHORT \o <<",">> \o Trip

Overrides == {Undefined, CarLONG, CarLONGcommaOther, ThreeNames, Ghost,
              GhostCommaCarLONGcommaNobody}

Suffixes == {Undefined, LONG, SHORT, QUICK}

Contexts ==
  { [NoContext EXCEPT
       !.bucketHashtag = Hashtag, !.bucketIncomeAcc = Savings,
       !.bucketWithdrawalAcc = Withdrawal, !.amount = amount,
       !.transactionId = <<"T1">>, !.description = "deposit", !.date = "D1",
       !.bucketOverride = route[2], !.direction = direction, !.suffix = route[1],
       !.savingsAccountId = <<"A1">>,
       !.savingsAccountNormalizedName = <<"rdb">>,
       !.isInitialization = isInitialization] :
     amount \in Amounts, direction \in {"deposit", "withdrawal"},
     isInitialization \in BOOLEAN,
     route \in (Suffixes \X {Undefined}) \cup ({Undefined} \X Overrides) }

CallDistribute(p) ==
  /\ inv[p].pc = "idle"
  /\ serial = 0
  /\ \E mode \in DirectModes, context \in Contexts :
       inv' = [inv EXCEPT ![p] =
                 Enter(Strategy(mode),
                       [Idle EXCEPT !.mode = mode, !.serial = 1, !.context = context])]
  /\ serial' = 1
  /\ UNCHANGED <<accounts, txs, lag, now, pageSize, last>>

Init ==
  /\ accounts \in Books
  /\ txs = <<>>
  /\ lag = {}
  /\ now = 0
  /\ pageSize = 2
  /\ serial = 0
  /\ inv = [p \in Procs |-> Idle]
  /\ last = NoLast

NextDist ==
  \/ CallDistribute(1)
  \/ \E p \in Procs : Create(p)
  \/ \E p \in Procs : CreateFails(p)
  \/ Tick

SpecDist == Init /\ [][NextDist]_vars

(***************************************************************************)
(* Distribution runs for one source, one after the other or at once: up   *)
(* to MaxInvocations calls of the strategies on one book, while Date.now() *)
(* advances or not.                                                       *)
(***************************************************************************)
RunContexts ==
  {context \in Contexts :
     /\ context.amount = Num(100)
     /\ context.direction = "deposit"
     /\ context.suffix \in {Undefined, LONG}
     /\ context.bucketOverride \in {Undefined, CarLONG}}

CallRun(p) ==
  /\ inv[p].pc = "idle"
  /\ serial < MaxInvocations
  /\ \E mode \in DirectModes, context \in RunContexts :
       inv' = [inv EXCEPT ![p] =
                 Enter(Strategy(mode),
                       [Idle EXCEPT !.mode = mode, !.serial = serial + 1,
                                    !.context = context])]
  /\ serial' = serial + 1
  /\ UNCHANGED <<accounts, txs, lag, now, pageSize, last>>

InitRuns ==
  /\ accounts = Book(<<60, 40, 0, 0, 0>>)
  /\ txs = <<>>
  /\ lag = {}
  /\ now = 0
  /\ pageSize = 2
  /\ serial = 0
  /\ inv = [p \in Procs |-> Idle]
  /\ last = NoLast

NextRuns ==
  \/ \E p \in Procs : CallRun(p)
  \/ \E p \in Procs : Create(p)
  \/ Tick

SpecRuns == InitRuns /\ [][NextRuns]_vars

(***************************************************************************)
(* The strategies called with a context whose clearing accounts the       *)
(* Bucket book does not all have: bucketIncomeAcc, bucketWithdrawalAcc or *)
(* both name an account that is missing.                                  *)
(***************************************************************************)
ClearingContexts ==
  {[context EXCEPT !.bucketIncomeAcc = clearing[1],
                   !.bucketWithdrawalAcc = clearing[2]] :
     context \in {c \in Contexts : c.amount = Num(100) /\ ~c.isInitialization},
     clearing \in {<<Ghost, Withdrawal>>, <<Savings, Ghost>>, <<Ghost, Ghost>>} }

CallClearing(p) ==
  /\ inv[p].pc = "idle"
  /\ serial = 0
  /\ \E mode \in DirectModes, context \in ClearingContexts :
       inv' = [inv EXCEPT ![p] =
                 Enter(Strategy(mode),
                       [Idle EXCEPT !.mode = mode, !.serial = 1, !.context = context])]
  /\ serial' = 1
  /\ UNCHANGED <<accounts, txs, lag, now, pageSize, last>>

InitClearing ==
  /\ accounts \in {Book(<<60, 40, 0, 0, 0>>), Book(<<50, -1, 25, 25, -1>>)}
  /\ txs = <<>>
  /\ lag = {}
  /\ now = 0
  /\ pageSize = 2
  /\ serial = 0
  /\ inv = [p \in Procs |-> Idle]
  /\ last = NoLast

NextClearing ==
  \/ CallClearing(1)
  \/ \E p \in Procs : Create(p)
  \/ \E p \in Procs : CreateFails(p)

SpecClearing == InitClearing /\ [][NextClearing]_vars

(***************************************************************************)
(* findBucketTransactionsByGlId called directly, on a store drawn from a  *)
(* bounded set, under every page size up to MaxPageSize.                  *)
(***************************************************************************)
Stored(remoteIds, date) ==
  [remoteIds |-> remoteIds, date |-> date, amount |-> Num(10),
   description |-> [base |-> "deposit", bucket |-> Hashtag, gl |-> <<"rdb">>],
   gl_account_id |-> <<"A1">>, creditAccount |-> Savings, debitAccount |-> CarLONG,
   trashed |-> FALSE, checked |-> FALSE, by |-> 0]

\* entries of T1, of T2, of both, with two remote ids of T1, with none, with
\* the remote id of an initialization, with the bare id, and on another date
StoredEntries ==
  { Stored(<< <<"T1", "car", "long", "0">> >>, "D1"),
    Stored(<< <<"T2", "car", "long", "0">> >>, "D1"),
    Stored(<< <<"T2", "car", "long", "0">>, <<"T1", "car", "long", "0">> >>, "D1"),
    Stored(<< <<"T1", "car", "long", "0">>, <<"T1", "fun", "long", "0">> >>, "D1"),
    Stored(<<>>, "D1"),
    Stored(<< <<"init", "T1", "car", "long", "0">> >>, "D1"),
    Stored(<< <<"T1">> >>, "D1"),
    Stored(<< <<"T1", "car", "long", "0">> >>, "D2") }

Stores == UNION {[1..n -> StoredEntries] : n \in 0..MaxStored}

ExpectedCounts == {Undefined} \cup {<<n>> : n \in 0..MaxExpected}

CallFind(p) ==
  /\ inv[p].pc = "idle"
  /\ serial = 0
  /\ \E expectedCount \in ExpectedCounts :
       inv' = [inv EXCEPT ![p] =
                 [Idle EXCEPT !.mode = "findBucketTransactionsByGlId", !.serial = 1,
                              !.pc = "search",
                              !.query = [NoQuery EXCEPT !.hashtag = Hashtag,
                                                        !.date = "D1"],
                              !.glTransactionId = <<"T1">>,
                              !.expectedCount = expectedCount]]
  /\ serial' = 1
  /\ UNCHANGED <<accounts, txs, lag, now, pageSize, last>>

InitFind ==
  /\ accounts = Book(<<60, 40, 0, 0, 0>>)
  /\ txs \in Stores
  /\ lag = {}
  /\ now = 0
  /\ pageSize \in 1..MaxPageSize
  /\ serial = 0
  /\ inv = [p \in Procs |-> Idle]
  /\ last = NoLast

NextFind ==
  \/ CallFind(1)
  \/ \E p \in Procs : Search(p)

SpecFind == InitFind /\ [][NextFind]_vars

(***************************************************************************)
(* verifyTransactionsTrashed called directly (bucket.ts 492-531), with    *)
(* every maxRetries up to MaxRetries, on transactions of which some are   *)
(* trashed, some are trashed without the reads showing it yet, some are   *)
(* not trashed and one is not in the book.                                *)
(***************************************************************************)
VerifyStores ==
  UNION {[1..n -> {Stored(<< <<"T1", "car", "long", "0">> >>, "D1"),
                   [Stored(<< <<"T1", "car", "long", "0">> >>, "D1")
                      EXCEPT !.trashed = TRUE]}] : n \in 0..MaxStored}

\* lines 498-506: nothing is fetched for no transactions; the loop is entered
\* with every transaction pending and retryCount 0
verifyTransactionsTrashed(r, transactions, maxRetries) ==
  LET called == [r EXCEPT !.matching = transactions, !.pending = transactions,
                          !.retryCount = 0, !.maxRetries = maxRetries,
                          !.rounds = 0, !.fetched = 0]
  IN  IF Len(transactions) = 0 THEN [called EXCEPT !.pc = "returned"]
      ELSE IF keepVerifying(transactions, 0, maxRetries)
           THEN [called EXCEPT !.pc = "verify"]
      ELSE [called EXCEPT !.pc = "returned"]

CallVerify(p) ==
  /\ inv[p].pc = "idle"
  /\ serial = 0
  /\ \E ids \in SUBSET (1..(Len(txs) + 1)), maxRetries \in (-1)..MaxRetries :
       inv' = [inv EXCEPT ![p] =
                 verifyTransactionsTrashed(
                   [Idle EXCEPT !.mode = "verifyTransactionsTrashed", !.serial = 1],
                   Filter([i \in 1..(Len(txs) + 1) |-> i], ids), maxRetries)]
  /\ serial' = 1
  /\ UNCHANGED <<accounts, txs, lag, now, pageSize, last>>

InitVerify ==
  /\ accounts = Book(<<60, 40, 0, 0, 0>>)
  /\ txs \in VerifyStores
  /\ lag \in SUBSET {i \in 1..Len(txs) : txs[i].trashed}
  /\ now = 0
  /\ pageSize = 2
  /\ serial = 0
  /\ inv = [p \in Procs |-> Idle]
  /\ last = NoLast

NextVerify ==
  \/ CallVerify(1)
  \/ \E p \in Procs : VerifyRound(p)
  \/ Propagate

\* the awaited reads and the timer of line 526 complete: a round that can run
\* does run
SpecVerify ==
  InitVerify /\ [][NextVerify]_vars /\ \A p \in Procs : WF_vars(VerifyRound(p))

(***************************************************************************)
(* validateBalances called directly (bucket.ts 711-725), on GL books and  *)
(* Bucket books with and without qualifying accounts, with balances that  *)
(* differ by nothing, by less than the tolerance, by the tolerance and by *)
(* more.                                                                  *)
(***************************************************************************)
GlBalances == {Num(0), Num(10), Dec(10005, -3), Dec(1001, -2)}

GlBooks ==
  LET held == {[account |-> account, balance |-> balance] :
                 account \in {RDBLONG, Bank, Pot}, balance \in GlBalances}
  IN  UNION {[1..n -> held] : n \in 0..2}

\* a deposit of 10 into Car LONG, one of 0.005 into Fun LONG, one of 1 into
\* the liability, a trashed one, and a withdrawal of 10 from Car LONG
BalanceEntries ==
  LET entry == Stored(<< <<"T1", "car", "long", "0">> >>, "D1")
  IN  { entry,
        [entry EXCEPT !.debitAccount = FunLONG, !.amount = Dec(5, -3)],
        [entry EXCEPT !.debitAccount = LoanLONG, !.amount = Num(1)],
        [entry EXCEPT !.trashed = TRUE],
        [entry EXCEPT !.debitAccount = Withdrawal, !.creditAccount = CarLONG] }

BalanceStores == UNION {[1..n -> BalanceEntries] : n \in 0..MaxStored}

CallValidateBalances(p) ==
  /\ inv[p].pc = "idle"
  /\ serial = 0
  /\ \E glBook \in GlBooks :
       inv' = [inv EXCEPT ![p] =
                 [Idle EXCEPT !.mode = "validateBalances", !.serial = 1,
                              !.pc = "returned", !.glBook = glBook,
                              !.reports = BalanceReports(glBook),
                              !.balanceValidation =
                                validateBalances(getGlSavingsTotal(glBook),
                                                 getBucketTotal)]]
  /\ serial' = 1
  /\ UNCHANGED <<accounts, txs, lag, now, pageSize, last>>

InitBalances ==
  /\ accounts \in {Book(<<60, 40, 0, 0, 0>>), Book(<<-1, -1, -1, -1, -1>>)}
  /\ txs \in BalanceStores
  /\ lag = {}
  /\ now = 0
  /\ pageSize = 2
  /\ serial = 0
  /\ inv = [p \in Procs |-> Idle]
  /\ last = NoLast

NextBalances == CallValidateBalances(1)

SpecBalances == InitBalances /\ [][NextBalances]_vars

(***************************************************************************)
(* The webhook, one request at a time.                                    *)
(***************************************************************************)
\* the books the webhook is exercised on: percentages summing to 100 (two
\* LONG accounts, one SHORT, three in all) and percentages summing to 80
WebhookBooks == {Book(<<50, -1, 25, 25, -1>>), Book(<<40, 40, 0, 0, 0>>)}

Deposit(type, date, amount) ==
  Payload(type, <<"T1">>, date, amount, RDBLONG, Bank, Undefined)

Events ==
  {Deposit(type, "D1", Num(100)) : type \in TransactionEvents}
  \cup {Deposit("TRANSACTION_UPDATED", "D2", Num(100)),
        Deposit("TRANSACTION_UPDATED", "D1", Num(90)),
        Payload("TRANSACTION_POSTED", <<"T1">>, "D1", Num(100), Nest, Bank, Undefined),
        Payload("TRANSACTION_POSTED", <<"T1">>, "D1", Num(100), Bank, RDBLONG,
                CarLONGcommaOther),
        Payload("TRANSACTION_UPDATED", <<"T1">>, "D1", Num(100), Bank, RDBLONG, Ghost),
        Payload("TRANSACTION_UPDATED", <<"T1">>, "D1", Num(100), Bank, Bank, Undefined),
        Payload("TRANSACTION_POSTED", <<"T2">>, "D1", Num(100), Pot, Bank, Undefined),
        [Deposit("TRANSACTION_POSTED", "D1", Num(100)) EXCEPT !.oauthToken = FALSE]}

InitWebhook ==
  /\ accounts \in WebhookBooks
  /\ txs = <<>>
  /\ lag = {}
  /\ now = 0
  /\ pageSize = 2
  /\ serial = 0
  /\ inv = [p \in Procs |-> Idle]
  /\ last = NoLast

Next ==
  \/ \E payload \in Events : Receive(1, payload)
  \/ \E p \in Procs : Search(p)
  \/ \E p \in Procs : Trash(p)
  \/ \E p \in Procs : VerifyRound(p)
  \/ Propagate
  \/ \E p \in Procs : Distribute(p)
  \/ \E p \in Procs : Create(p)
  \/ \E p \in Procs : CreateFails(p)
  \/ \E p \in Procs : ValidateBalances(p)
  \/ \E p \in Procs : Check(p)
  \/ \E p \in Procs : Finish(p)
  \/ Tick

Spec == InitWebhook /\ [][Next]_vars

(***************************************************************************)
(* The webhook with the account events: savings added and removed, the    *)
(* account archived, unarchived and deleted, next to transaction events   *)
(* of an active and of an archived savings account.                       *)
(***************************************************************************)
AccountEvent(type, account, savings, active) ==
  [NoPayload EXCEPT !.type = type, !.account = account,
                    !.previousAttributes = [savings |-> savings, active |-> active]]

Archived(account) == [account EXCEPT !.archived = TRUE]

LifecycleEvents ==
  { AccountEvent("ACCOUNT_UPDATED", RDBLONG, <<"false">>, Undefined),
    AccountEvent("ACCOUNT_UPDATED", Nest, <<"">>, Undefined),
    AccountEvent("ACCOUNT_UPDATED", [RDBLONG EXCEPT !.type = "LIABILITY"], <<"">>,
                 Undefined),
    AccountEvent("ACCOUNT_UPDATED", Archived(RDBLONG), <<"">>, Undefined),
    AccountEvent("ACCOUNT_UPDATED", [RDBLONG EXCEPT !.savings = "false"], <<"true">>,
                 Undefined),
    AccountEvent("ACCOUNT_UPDATED", Archived(RDBLONG), Undefined, <<"true">>),
    AccountEvent("ACCOUNT_UPDATED", RDBLONG, Undefined, <<"false">>),
    AccountEvent("ACCOUNT_UPDATED", RDBLONG, Undefined, Undefined),
    AccountEvent("ACCOUNT_UPDATED", NoPayload.account, <<"">>, Undefined),
    AccountEvent("ACCOUNT_DELETED", RDBLONG, Undefined, Undefined),
    AccountEvent("ACCOUNT_DELETED", Bank, Undefined, Undefined),
    [AccountEvent("ACCOUNT_DELETED", RDBLONG, Undefined, Undefined)
       EXCEPT !.oauthToken = FALSE],
    Deposit("TRANSACTION_POSTED", "D1", Num(100)),
    Deposit("TRANSACTION_UNTRASHED", "D1", Num(100)),
    Payload("TRANSACTION_POSTED", <<"T1">>, "D1", Num(100), Bank, RDBLONG,
            CarLONGcommaOther),
    Payload("TRANSACTION_POSTED", <<"T2">>, "D1", Num(100), Archived(RDBLONG), Bank,
            Undefined),
    Payload("TRANSACTION_UPDATED", <<"T2">>, "D1", Num(100), Archived(RDBLONG), Bank,
            Undefined) }

NextLifecycle ==
  \/ \E payload \in LifecycleEvents : Receive(1, payload)
  \/ \E p \in Procs : FetchBalance(p)
  \/ \E p \in Procs : Search(p)
  \/ \E p \in Procs : Trash(p)
  \/ \E p \in Procs : VerifyRound(p)
  \/ Propagate
  \/ \E p \in Procs : Distribute(p)
  \/ \E p \in Procs : Create(p)
  \/ \E p \in Procs : CreateFails(p)
  \/ \E p \in Procs : ValidateBalances(p)
  \/ \E p \in Procs : Check(p)
  \/ \E p \in Procs : Finish(p)
  \/ Tick

SpecLifecycle == InitWebhook /\ [][NextLifecycle]_vars

(***************************************************************************)
(* The webhook on the book of the worked example: "Car LONG" at 60%,      *)
(* "Car SHORT" at 40% and "Other" at 0%, for a GL transaction of 1000     *)
(* into the savings account "RDB LONG".                                   *)
(***************************************************************************)
ScenarioBook == Book(<<60, -1, -1, 40, 0>>)

ScenarioEvents == {Deposit(type, "D1", Num(1000)) : type \in TransactionEvents}

InitScenario ==
  /\ accounts = ScenarioBook
  /\ txs = <<>>
  /\ lag = {}
  /\ now = 0
  /\ pageSize = 2
  /\ serial = 0
  /\ inv = [p \in Procs |-> Idle]
  /\ last = NoLast

NextScenario ==
  \/ \E payload \in ScenarioEvents : Receive(1, payload)
  \/ \E p \in Procs : Search(p)
  \/ \E p \in Procs : Trash(p)
  \/ \E p \in Procs : VerifyRound(p)
  \/ Propagate
  \/ \E p \in Procs : Distribute(p)
  \/ \E p \in Procs : Create(p)
  \/ \E p \in Procs : CreateFails(p)
  \/ \E p \in Procs : ValidateBalances(p)
  \/ \E p \in Procs : Check(p)
  \/ \E p \in Procs : Finish(p)
  \/ Tick

SpecScenario == InitScenario /\ [][NextScenario]_vars

(***************************************************************************)
(* detectSavings called on its own, over the payloads of a transaction    *)
(* between two GL accounts: savings on the account, on a group, on both,  *)
(* denied on the account, or nowhere; with and without a bucket override, *)
(* in a GL book with and without a bucket_book_id.                        *)
(***************************************************************************)
Group(name, savings) == [name |-> name, savings |-> savings]

Daily == Group(<<"D", "a", "i", "l", "y">>, "false")

Rainy == Group(<<"R", "a", "i", "n", "y">>, "true")

\* four groups, the second and the third with savings "true", the third and
\* the fourth with a suffix
Jar ==
  GlAccount(<<"A5">>, <<"J", "a", "r">>, <<"jar">>, "",
            <<Daily, Rainy, Pot.groups[1], Group(GoalsLONG, "")>>)

\* a suffix on the name, none on the savings group
TinQUICK ==
  GlAccount(<<"A6">>, <<"T", "i", "n", " ", "Q", "U", "I", "C", "K">>, <<"tin", "quick">>,
            "", <<Rainy>>)

DetectAccounts ==
  { RDBLONG, Bank, Nest, Pot,
    [Pot EXCEPT !.savings = "false"],
    [Bank EXCEPT !.savings = "false"],
    [RDBLONG EXCEPT !.groups = Pot.groups],
    Jar, TinQUICK,
    [Jar EXCEPT !.savings = "false"],
    [TinQUICK EXCEPT !.groups = Pot.groups],
    [Nest EXCEPT !.groups = <<Daily, Group(GoalsLONG, "")>>] }

DetectPayloads ==
  { [Payload("TRANSACTION_POSTED", <<"T1">>, "D1", Num(100), debitAccount,
             creditAccount, bucket) EXCEPT !.book.bucket_book_id = bucketBookId] :
      debitAccount \in DetectAccounts, creditAccount \in DetectAccounts,
      bucket \in {Undefined, CarLONGcommaOther}, bucketBookId \in {BucketBookId, ""} }

CallDetectSavings(p) ==
  /\ inv[p].pc = "idle"
  /\ serial = 0
  /\ \E payload \in DetectPayloads :
       LET result == detectSavings(payload)
       IN  inv' = [inv EXCEPT ![p] =
                     [Idle EXCEPT !.mode = "detectSavings", !.serial = 1,
                                  !.pc = "returned", !.event = payload,
                                  !.isSavings = result.isSavings,
                                  !.context = result.context]]
  /\ serial' = 1
  /\ UNCHANGED <<accounts, txs, lag, now, pageSize, last>>

InitDetect ==
  /\ accounts = Book(<<60, 40, 0, 0, 0>>)
  /\ txs = <<>>
  /\ lag = {}
  /\ now = 0
  /\ pageSize = 2
  /\ serial = 0
  /\ inv = [p \in Procs |-> Idle]
  /\ last = NoLast

NextDetect == CallDetectSavings(1)

SpecDetect == InitDetect /\ [][NextDetect]_vars

(***************************************************************************)
(* The webhook with events that detectSavings does not match: a GL book   *)
(* without bucket_book_id, a bucket_book_id that no book of the           *)
(* collection has, and a transaction between accounts without savings;    *)
(* next to them the deposits that fill the Bucket book.                   *)
(***************************************************************************)
NoMatchEvents ==
  UNION { { [Deposit(type, "D1", Num(100)) EXCEPT !.book.bucket_book_id = ""],
            [Deposit(type, "D1", Num(100)) EXCEPT !.book.bucket_book_id = "missing-book"],
            Payload(type, <<"T1">>, "D1", Num(100), Bank, Bank, Undefined),
            Deposit(type, "D1", Num(100)) } : type \in TransactionEvents }

NextNoMatch ==
  \/ \E payload \in NoMatchEvents : Receive(1, payload)
  \/ \E p \in Procs : Search(p)
  \/ \E p \in Procs : Trash(p)
  \/ \E p \in Procs : VerifyRound(p)
  \/ Propagate
  \/ \E p \in Procs : Distribute(p)
  \/ \E p \in Procs : Create(p)
  \/ \E p \in Procs : CreateFails(p)
  \/ \E p \in Procs : ValidateBalances(p)
  \/ \E p \in Procs : Check(p)
  \/ \E p \in Procs : Finish(p)
  \/ Tick

SpecNoMatch == InitWebhook /\ [][NextNoMatch]_vars

(***************************************************************************)
(* extractSuffix called on its own, over the names of up to MaxNameLen    *)
(* characters: upper-case and lower-case letters, a digit, space and tab. *)
(***************************************************************************)
NameCharacters == {"A", "Z", "b", "1", " ", "\t"}

Names == UNION {[1..n -> NameCharacters] : n \in 0..MaxNameLen}

CallExtractSuffix(p) ==
  /\ inv[p].pc = "idle"
  /\ serial = 0
  /\ \E name \in Names :
       inv' = [inv EXCEPT ![p] =
                 [Idle EXCEPT !.mode = "extractSuffix", !.serial = 1,
                              !.pc = "returned", !.name = name,
                              !.suffix = extractSuffix(name)]]
  /\ serial' = 1
  /\ UNCHANGED <<accounts, txs, lag, now, pageSize, last>>

NextSuffix == CallExtractSuffix(1)

SpecSuffix == InitDetect /\ [][NextSuffix]_vars

(***************************************************************************)
(* validatePercentages called on its own, over the books whose five       *)
(* ASSET accounts have no percentage, 0, 20 or 50 each, next to the       *)
(* liability at 10% and the two clearing accounts.                        *)
(***************************************************************************)
PercentageBooks == {Book(v) : v \in [1..5 -> {-1, 0, 20, 50}]}

CallValidatePercentages(p) ==
  /\ inv[p].pc = "idle"
  /\ serial = 0
  /\ inv' = [inv EXCEPT ![p] =
               [Idle EXCEPT !.mode = "validatePercentages", !.serial = 1,
                            !.pc = "returned",
                            !.validation = validatePercentages(accounts)]]
  /\ serial' = 1
  /\ UNCHANGED <<accounts, txs, lag, now, pageSize, last>>

InitPercentages ==
  /\ accounts \in PercentageBooks
  /\ txs = <<>>
  /\ lag = {}
  /\ now = 0
  /\ pageSize = 2
  /\ serial = 0
  /\ inv = [p \in Procs |-> Idle]
  /\ last = NoLast

NextPercentages == CallValidatePercentages(1)

SpecPercentages == InitPercentages /\ [][NextPercentages]_vars

(***************************************************************************)
(* The cleanup of an account: the archive, the removal of savings and the *)
(* deletion of "RDB LONG", on Bucket books that hold up to MaxStored      *)
(* entries of that account and of another, on two dates, checked,         *)
(* unchecked and trashed, under every page size up to MaxPageSize.        *)
(***************************************************************************)
AccountEntries ==
  LET entry == Stored(<< <<"T1", "car", "long", "0">> >>, "D1")
  IN  { entry,
        [entry EXCEPT !.date = "D2"],
        [entry EXCEPT !.checked = TRUE],
        [entry EXCEPT !.gl_account_id = Nest.id],
        [entry EXCEPT !.trashed = TRUE] }

AccountStores == UNION {[1..n -> AccountEntries] : n \in 0..MaxStored}

CleanupEvents ==
  { AccountEvent("ACCOUNT_UPDATED", Archived(RDBLONG), Undefined, <<"true">>),
    AccountEvent("ACCOUNT_UPDATED", [RDBLONG EXCEPT !.savings = "false"], <<"true">>,
                 Undefined),
    AccountEvent("ACCOUNT_DELETED", RDBLONG, Undefined, Undefined) }

InitAccountCleanup ==
  /\ accounts = Book(<<60, 40, 0, 0, 0>>)
  /\ txs \in AccountStores
  /\ lag = {}
  /\ now = 0
  /\ pageSize \in 1..MaxPageSize
  /\ serial = 0
  /\ inv = [p \in Procs |-> Idle]
  /\ last = NoLast

NextAccountCleanup ==
  \/ \E payload \in CleanupEvents : Receive(1, payload)
  \/ \E p \in Procs : Search(p)
  \/ \E p \in Procs : Trash(p)
  \/ \E p \in Procs : VerifyRound(p)
  \/ Propagate
  \/ \E p \in Procs : Finish(p)

SpecAccountCleanup == InitAccountCleanup /\ [][NextAccountCleanup]_vars

(***************************************************************************)
(* The webhook on a Bucket book that already holds entries: of T1 and of  *)
(* T2, unchecked and checked, with percentages that sum to 100 or to 80;  *)
(* T1 is deleted or posted.                                               *)
(***************************************************************************)
HeldEntries ==
  { Stored(<< <<"T1", "car", "long", "0">> >>, "D1"),
    Stored(<< <<"T2", "car", "long", "0">> >>, "D1"),
    [Stored(<< <<"T1", "fun", "long", "0">> >>, "D1") EXCEPT !.checked = TRUE] }

HeldStores == UNION {[1..n -> HeldEntries] : n \in 0..(MaxStored - 1)}

InitDeleted ==
  /\ accounts \in WebhookBooks
  /\ txs \in HeldStores
  /\ lag = {}
  /\ now = 0
  /\ pageSize = 2
  /\ serial = 0
  /\ inv = [p \in Procs |-> Idle]
  /\ last = NoLast

NextDeleted ==
  \/ \E type \in {"TRANSACTION_DELETED", "TRANSACTION_POSTED"} :
       Receive(1, Deposit(type, "D1", Num(100)))
  \/ \E p \in Procs : Search(p)
  \/ \E p \in Procs : Trash(p)
  \/ \E p \in Procs : VerifyRound(p)
  \/ Propagate
  \/ \E p \in Procs : Distribute(p)
  \/ \E p \in Procs : Create(p)
  \/ \E p \in Procs : CreateFails(p)
  \/ \E p \in Procs : ValidateBalances(p)
  \/ \E p \in Procs : Check(p)
  \/ \E p \in Procs : Finish(p)
  \/ Tick

SpecDeleted == InitDeleted /\ [][NextDeleted]_vars

(***************************************************************************)
(* A distribution, then a lookup: one strategy creates the entries of a   *)
(* transaction or of an initialization, and findBucketTransactionsByGlId  *)
(* is called for a transaction id.  The platform's ids are opaque strings *)
(* and may hold underscores: T1, T2 and T1_x.                             *)
(***************************************************************************)
SourceIds == {<<"T1">>, <<"T2">>, <<"T1", "x">>}

SourceContexts ==
  { [NoContext EXCEPT
       !.bucketHashtag = Hashtag, !.bucketIncomeAcc = Savings,
       !.bucketWithdrawalAcc = Withdrawal, !.amount = Num(100),
       !.transactionId = id, !.description = "deposit", !.date = "D1",
       !.bucketOverride = route[2], !.direction = "deposit", !.suffix = route[1],
       !.savingsAccountId = <<"A1">>,
       !.savingsAccountNormalizedName = <<"rdb">>] :
     id \in SourceIds,
     route \in {<<Undefined, Undefined>>, <<LONG, Undefined>>, <<Undefined, CarLONG>>} }
  \cup
  { [NoContext EXCEPT
       !.bucketHashtag = Hashtag, !.bucketIncomeAcc = Savings,
       !.bucketWithdrawalAcc = Withdrawal, !.amount = Num(100),
       !.transactionId = <<"A1">>, !.description = "Initial balance", !.date = "D1",
       !.direction = "deposit", !.suffix = suffix,
       !.savingsAccountId = <<"A1">>,
       !.savingsAccountNormalizedName = <<"rdb">>,
       !.isInitialization = TRUE] :
     suffix \in {Undefined, LONG} }

\* the strategy the handler calls for a context (index.ts 499-569)
RouteOf(context) ==
  IF context.bucketOverride # Undefined THEN "distributeToOverrideBuckets"
  ELSE IF context.suffix # Undefined THEN "distributeToSuffixBuckets"
  ELSE "distributeToAllBuckets"

CallDistributeFor(p) ==
  /\ inv[p].pc = "idle"
  /\ serial = 0
  /\ \E context \in SourceContexts :
       inv' = [inv EXCEPT ![p] =
                 Enter(Strategy(RouteOf(context)),
                       [Idle EXCEPT !.mode = RouteOf(context), !.serial = 1,
                                    !.context = context])]
  /\ serial' = 1
  /\ UNCHANGED <<accounts, txs, lag, now, pageSize, last>>

CallFindFor(p) ==
  /\ inv[p].pc = "idle"
  /\ serial = 1
  /\ \A q \in Procs : inv[q].pc \in {"idle", "returned"}
  /\ \E glTransactionId \in SourceIds \cup {<<"A1">>} :
       inv' = [inv EXCEPT ![p] =
                 [Idle EXCEPT !.mode = "findBucketTransactionsByGlId", !.serial = 2,
                              !.pc = "search",
                              !.query = [NoQuery EXCEPT !.hashtag = Hashtag,
                                                        !.date = "D1"],
                              !.glTransactionId = glTransactionId]]
  /\ serial' = 2
  /\ UNCHANGED <<accounts, txs, lag, now, pageSize, last>>

InitIdentifiers ==
  /\ accounts \in WebhookBooks
  /\ txs = <<>>
  /\ lag = {}
  /\ now = 0
  /\ pageSize \in 1..MaxPageSize
  /\ serial = 0
  /\ inv = [p \in Procs |-> Idle]
  /\ last = NoLast

NextIdentifiers ==
  \/ CallDistributeFor(1)
  \/ \E p \in Procs : Create(p)
  \/ CallFindFor(2)
  \/ \E p \in Procs : Search(p)

SpecIdentifiers == InitIdentifiers /\ [][NextIdentifiers]_vars

(***************************************************************************)
(* The life of one savings transaction: T1 is posted, deleted and         *)
(* untrashed.  The three events are successive actions of a user; each    *)
(* request is handled to its end before the next one arrives, and the     *)
(* clock has advanced by then.                                            *)
(***************************************************************************)
LifeOfT == <<"TRANSACTION_POSTED", "TRANSACTION_DELETED", "TRANSACTION_UNTRASHED">>

ReceiveInOrder(p) ==
  /\ \A q \in Procs : inv[q].pc = "idle"
  /\ serial < Len(LifeOfT)
  /\ serial' = serial + 1
  /\ now' = now + 1
  /\ inv' = [inv EXCEPT ![p] =
               Handle([Idle EXCEPT !.mode = "webhook", !.serial = serial + 1,
                                   !.event = Deposit(LifeOfT[serial + 1], "D1", Num(100))],
                      Deposit(LifeOfT[serial + 1], "D1", Num(100)))]
  /\ UNCHANGED <<accounts, txs, lag, pageSize, last>>

InitLife ==
  /\ accounts \in {Book(<<50, -1, 25, 25, -1>>), Book(<<60, 40, 0, 0, 0>>)}
  /\ txs \in {<<>>, <<Stored(<< <<"T2", "car", "long", "0">> >>, "D1")>>}
  /\ lag = {}
  /\ now = 0
  /\ pageSize = 2
  /\ serial = 0
  /\ inv = [p \in Procs |-> Idle]
  /\ last = NoLast

NextLife ==
  \/ ReceiveInOrder(1)
  \/ \E p \in Procs : Search(p)
  \/ \E p \in Procs : Trash(p)
  \/ \E p \in Procs : VerifyRound(p)
  \/ Propagate
  \/ \E p \in Procs : Distribute(p)
  \/ \E p \in Procs : Create(p)
  \/ \E p \in Procs : CreateFails(p)
  \/ \E p \in Procs : ValidateBalances(p)
  \/ \E p \in Procs : Check(p)
  \/ \E p \in Procs : Finish(p)

SpecLife == InitLife /\ [][NextLife]_vars

(***************************************************************************)
(* The GL book next to the Bucket book.  Both start empty; T1, a deposit  *)
(* of 100 into the savings account RDB LONG on D2, is posted, and then    *)
(* edited (its amount, or its date), deleted, or nothing more happens.    *)
(* The GL book holds what the events report, and validateBalances reads   *)
(* its savings total from there.                                          *)
(***************************************************************************)
LedgerEdits ==
  { Deposit("TRANSACTION_UPDATED", "D2", Num(90)),
    Deposit("TRANSACTION_UPDATED", "D1", Num(100)),
    Deposit("TRANSACTION_DELETED", "D2", Num(100)) }

\* the event the GL book has reported last
Reported == IF inv[1].pc # "idle" THEN inv[1].event ELSE last.event

\* the cumulative balance of RDB LONG in the GL book
GlSavingsTotal ==
  IF serial = 0 \/ Reported.type = "TRANSACTION_DELETED" THEN Num(0)
  ELSE Reported.transaction.amount

ReceiveLedgerEvent(p) ==
  /\ \A q \in Procs : inv[q].pc = "idle"
  /\ serial < MaxInvocations
  /\ serial' = serial + 1
  /\ now' = now + 1
  /\ \E payload \in IF serial = 0 THEN {Deposit("TRANSACTION_POSTED", "D2", Num(100))}
                     ELSE LedgerEdits :
       inv' = [inv EXCEPT ![p] =
                 Handle([Idle EXCEPT !.mode = "webhook", !.serial = serial + 1,
                                     !.event = payload], payload)]
  /\ UNCHANGED <<accounts, txs, lag, pageSize, last>>

ValidateLedgerBalances(p) ==
  /\ inv[p].pc = "balance"
  /\ inv' = [inv EXCEPT ![p] =
               Validated(inv[p], validateBalances(GlSavingsTotal, getBucketTotal))]
  /\ UNCHANGED <<accounts, txs, lag, now, pageSize, serial, last>>

InitLedger ==
  /\ accounts \in {Book(<<50, -1, 25, 25, -1>>), Book(<<60, 40, 0, 0, 0>>)}
  /\ txs = <<>>
  /\ lag = {}
  /\ now = 0
  /\ pageSize = 2
  /\ serial = 0
  /\ inv = [p \in Procs |-> Idle]
  /\ last = NoLast

NextLedger ==
  \/ ReceiveLedgerEvent(1)
  \/ \E p \in Procs : Search(p)
  \/ \E p \in Procs : Trash(p)
  \/ \E p \in Procs : VerifyRound(p)
  \/ Propagate
  \/ \E p \in Procs : Distribute(p)
  \/ \E p \in Procs : Create(p)
  \/ \E p \in Procs : ValidateLedgerBalances(p)
  \/ \E p \in Procs : Check(p)
  \/ \E p \in Procs : Finish(p)

SpecLedger == InitLedger /\ [][NextLedger]_vars

(***************************************************************************)
(* A duplicate delivery: the same TRANSACTION_UPDATED of T1 is delivered  *)
(* twice and the two invocations run at once, one remote call per step.   *)
(***************************************************************************)
InitDuplicate ==
  /\ accounts = Book(<<50, -1, 25, 25, -1>>)
  /\ txs = <<>>
  /\ lag = {}
  /\ now = 0
  /\ pageSize = 2
  /\ serial = 0
  /\ inv = [p \in Procs |-> Idle]
  /\ last = NoLast

NextDuplicate ==
  \/ \E p \in Procs : Receive(p, Deposit("TRANSACTION_UPDATED", "D1", Num(100)))
  \/ \E p \in Procs : Search(p)
  \/ \E p \in Procs : Trash(p)
  \/ \E p \in Procs : VerifyRound(p)
  \/ Propagate
  \/ \E p \in Procs : Distribute(p)
  \/ \E p \in Procs : Create(p)
  \/ \E p \in Procs : ValidateBalances(p)
  \/ \E p \in Procs : Check(p)

SpecDuplicate == InitDuplicate /\ [][NextDuplicate]_vars

(***************************************************************************)
(* One edit of T1 on a Bucket book that holds untrashed entries of T1 and *)
(* of T2: the percentages sum to 100 or to 80, no account with a          *)
(* percentage has the suffix, or the bucket property names no account.    *)
(***************************************************************************)
EditBooks ==
  {Book(<<50, -1, 25, 25, -1>>), Book(<<40, 40, 0, 0, 0>>), Book(<<-1, -1, -1, 60, 40>>)}

Edits ==
  { Deposit("TRANSACTION_UPDATED", "D1", Num(90)),
    Payload("TRANSACTION_UPDATED", <<"T1">>, "D1", Num(90), RDBLONG, Bank, Ghost) }

ReceiveEdit(p) ==
  /\ inv[p].pc = "idle"
  /\ serial = 0
  /\ serial' = 1
  /\ \E payload \in Edits :
       inv' = [inv EXCEPT ![p] =
                 Handle([Idle EXCEPT !.mode = "webhook", !.serial = 1,
                                     !.event = payload], payload)]
  /\ UNCHANGED <<accounts, txs, lag, now, pageSize, last>>

InitEdit ==
  /\ accounts \in EditBooks
  /\ txs \in HeldStores
  /\ lag = {}
  /\ now = 0
  /\ pageSize = 2
  /\ serial = 0
  /\ inv = [p \in Procs |-> Idle]
  /\ last = NoLast

NextEdit ==
  \/ ReceiveEdit(1)
  \/ \E p \in Procs : Search(p)
  \/ \E p \in Procs : Trash(p)
  \/ \E p \in Procs : VerifyRound(p)
  \/ Propagate
  \/ \E p \in Procs : Distribute(p)
  \/ \E p \in Procs : Create(p)
  \/ \E p \in Procs : ValidateBalances(p)
  \/ \E p \in Procs : Check(p)
  \/ \E p \in Procs : Finish(p)

SpecEdit == InitEdit /\ [][NextEdit]_vars

(***************************************************************************)
(* A deposit into a savings account of the GL book, whose accounts are    *)
(* RDB LONG (savings by its own property), Pot (savings through its group *)
(* Reserve SHORT only) and Bank.  Both books start empty; the GL book     *)
(* holds the posted deposit when validateBalances reads it.               *)
(***************************************************************************)
SavingsDeposits ==
  { Deposit("TRANSACTION_POSTED", "D1", Num(100)),
    Payload("TRANSACTION_POSTED", <<"T2">>, "D1", Num(100), Pot, Bank, Undefined) }

\* the GL book after the event: its accounts with their cumulative balances
LedgerAfter(event) ==
  [i \in 1..3 |->
     LET account == <<RDBLONG, Pot, Bank>>[i]
     IN  [account |-> account,
          balance |-> IF account = event.transaction.debitAccount
                      THEN event.transaction.amount
                      ELSE IF account = event.transaction.creditAccount
                      THEN FNeg(event.transaction.amount)
                      ELSE Num(0)]]

ReceiveDeposit(p) ==
  /\ inv[p].pc = "idle"
  /\ serial = 0
  /\ serial' = 1
  /\ \E payload \in SavingsDeposits :
       inv' = [inv EXCEPT ![p] =
                 Handle([Idle EXCEPT !.mode = "webhook", !.serial = 1,
                                     !.event = payload], payload)]
  /\ UNCHANGED <<accounts, txs, lag, now, pageSize, last>>

ValidateGlBalances(p) ==
  /\ inv[p].pc = "balance"
  /\ inv' = [inv EXCEPT ![p] =
               Validated(inv[p],
                         validateBalances(getGlSavingsTotal(LedgerAfter(inv[p].event)),
                                          getBucketTotal))]
  /\ UNCHANGED <<accounts, txs, lag, now, pageSize, serial, last>>

InitGroupDeposit ==
  /\ accounts \in {Book(<<50, -1, 25, 25, -1>>), Book(<<30, 30, 30, 10, 0>>)}
  /\ txs = <<>>
  /\ lag = {}
  /\ now \in 0..MaxNow
  /\ pageSize \in 1..MaxPageSize
  /\ serial = 0
  /\ inv = [p \in Procs |-> Idle]
  /\ last = NoLast

NextGroupDeposit ==
  \/ \E p \in Procs : ReceiveDeposit(p)
  \/ \E p \in Procs : Distribute(p)
  \/ \E p \in Procs : Create(p)
  \/ \E p \in Procs : ValidateGlBalances(p)
  \/ \E p \in Procs : Check(p)
  \/ \E p \in Procs : Finish(p)

SpecGroupDeposit == InitGroupDeposit /\ [][NextGroupDeposit]_vars

(***************************************************************************)
(* The setup wizard (menu/src): loadState builds the distributions of the *)
(* savings balances per suffix group (WizardService.ts 119-176), and      *)
(* applyConfiguration has createInitialDistribution create them           *)
(* (WizardService.ts 253-266, TransactionService.ts 8-52).  A null suffix *)
(* is Undefined.                                                          *)
(***************************************************************************)
\* Math.round: the nearest integer, a half rounded up
MathRound(a) ==
  IF ~IsNum(a) \/ a.e >= 0 THEN a
  ELSE Num((2 * a.m + Pow10(-a.e)) \div (2 * Pow10(-a.e)))

RECURSIVE Flatten(_)
Flatten(ss) == IF ss = <<>> THEN <<>> ELSE Head(ss) \o Flatten(Tail(ss))

\* WizardService.ts 132-176
buildDistributions(currentSavingsAccounts, availableBucketAccounts) ==
  LET first == {i \in 1..Len(currentSavingsAccounts) :
                  \A j \in 1..(i - 1) :
                    currentSavingsAccounts[j].suffix # currentSavingsAccounts[i].suffix}
      suffixGroups == Filter(currentSavingsAccounts, first)
      distribution(suffix) ==
        LET grouped == Filter(currentSavingsAccounts,
                              {i \in 1..Len(currentSavingsAccounts) :
                                 currentSavingsAccounts[i].suffix = suffix})
            totalBalance == FSum([i \in 1..Len(grouped) |-> grouped[i].balance])
            matchingBuckets ==
              Filter(availableBucketAccounts,
                     {i \in 1..Len(availableBucketAccounts) :
                        \/ suffix = Undefined
                        \/ availableBucketAccounts[i].suffix = suffix
                        \/ availableBucketAccounts[i].suffix = Undefined})
            totalPercentage ==
              FSum([i \in 1..Len(matchingBuckets) |-> matchingBuckets[i].percentage])
            normalizedPercentage(bucket) ==
              IF FGreater(totalPercentage, Num(0))
              THEN FMul(FDiv(bucket.percentage, totalPercentage), Num(100))
              ELSE Num(0)
        IN  [suffix |-> suffix,
             totalBalance |-> totalBalance,
             savingsAccounts |-> [i \in 1..Len(grouped) |->
                                    [id |-> grouped[i].id, name |-> grouped[i].name,
                                     balance |-> grouped[i].balance]],
             bucketAmounts |->
               [i \in 1..Len(matchingBuckets) |->
                  [bucketName |-> matchingBuckets[i].name,
                   amount |->
                     FDiv(MathRound(FMul(FMul(FDiv(normalizedPercentage(matchingBuckets[i]),
                                                   Num(100)),
                                              totalBalance),
                                         Num(100))),
                          Num(100))]]]
  IN  [g \in 1..Len(suffixGroups) |-> distribution(suffixGroups[g].suffix)]

\* TransactionService.ts 23-45: the transactions built for the batch, or the
\* exception of a bucket account that is not found
initialTransactions(book, incomeAccountName, distributions, by) ==
  LET ofAccount(dist, savingsAccount) ==
        LET positive == Filter(dist.bucketAmounts,
                               {i \in 1..Len(dist.bucketAmounts) :
                                  FGreater(dist.bucketAmounts[i].amount, Num(0))})
        IN  [i \in 1..Len(positive) |->
               [remoteIds |-> <<>>,
                date |-> Today,
                amount |-> positive[i].amount,
                description |-> [base |-> "Initial balance", bucket |-> "", gl |-> <<>>],
                gl_account_id |-> savingsAccount.id,
                creditAccount |-> incomeAccountName,
                debitAccount |-> positive[i].bucketName,
                trashed |-> FALSE, checked |-> FALSE, by |-> by]]
      ofDistribution(dist) ==
        Flatten([a \in 1..Len(dist.savingsAccounts) |->
                   ofAccount(dist, dist.savingsAccounts[a])])
      transactions ==
        Flatten([d \in 1..Len(distributions) |-> ofDistribution(distributions[d])])
  IN  [threw |-> \/ getAccount(book, incomeAccountName) = Null
                 \/ \E i \in 1..Len(transactions) :
                      getAccount(book, transactions[i].debitAccount) = Null,
       transactions |-> transactions]

SavingsInfo(id, name, balance, suffix) ==
  [id |-> id, name |-> name, balance |-> balance, suffix |-> suffix]

BucketInfo(name, percentage, suffix) ==
  [name |-> name, percentage |-> Num(percentage), suffix |-> suffix]

INGLONG == <<"I", "N", "G", " ", "L", "O", "N", "G">>

\* one, two or three savings accounts: two with the suffix LONG, one with none
WizardSavings ==
  UNION { { <<SavingsInfo(<<"A1">>, RDBLONG.name, b1, LONG)>>,
            <<SavingsInfo(<<"A3">>, Nest.name, b1, Undefined)>>,
            <<SavingsInfo(<<"A1">>, RDBLONG.name, b1, LONG),
              SavingsInfo(<<"A3">>, Nest.name, b2, Undefined)>>,
            <<SavingsInfo(<<"A1">>, RDBLONG.name, b1, LONG),
              SavingsInfo(<<"A6">>, INGLONG, b2, LONG)>>,
            <<SavingsInfo(<<"A1">>, RDBLONG.name, b1, LONG),
              SavingsInfo(<<"A3">>, Nest.name, b2, Undefined),
              SavingsInfo(<<"A6">>, INGLONG, b1, LONG)>> } :
          b1 \in {Num(100), Num(0)}, b2 \in {Num(50), Num(100)} }

WizardBuckets ==
  { <<BucketInfo(CarLONG, 60, LONG), BucketInfo(FunLONG, 40, LONG)>>,
    <<BucketInfo(CarLONG, 50, LONG), BucketInfo(CarSHORT, 25, SHORT),
      BucketInfo(Other, 25, Undefined)>>,
    <<BucketInfo(CarLONG, 30, LONG), BucketInfo(FunLONG, 30, LONG),
      BucketInfo(Other, 30, Undefined), BucketInfo(CarSHORT, 10, SHORT)>>,
    <<BucketInfo(CarSHORT, 100, SHORT)>>,
    <<BucketInfo(CarLONG, 50, LONG), BucketInfo(Ghost, 50, LONG)>> }

\* loadState 119-125 and step 5 of applyConfiguration, 253-266, with
\* createInitialDistribution: one batchCreateTransactions
ApplyDistributions(p) ==
  /\ inv[p].pc = "idle"
  /\ serial = 0
  /\ serial' = 1
  /\ \E currentSavingsAccounts \in WizardSavings, availableBucketAccounts \in WizardBuckets :
       LET totalBalance ==
             FSum([i \in 1..Len(currentSavingsAccounts) |->
                     currentSavingsAccounts[i].balance])
           distributions ==
             IF FGreater(totalBalance, Num(0))
             THEN buildDistributions(currentSavingsAccounts, availableBucketAccounts)
             ELSE <<>>
           hasDistributions ==
             \E d \in 1..Len(distributions) :
               \E i \in 1..Len(distributions[d].bucketAmounts) :
                 FGreater(distributions[d].bucketAmounts[i].amount, Num(0))
           built == initialTransactions(accounts, Savings, distributions, 1)
           called == [Idle EXCEPT !.mode = "createInitialDistribution", !.serial = 1,
                                  !.currentSavingsAccounts = currentSavingsAccounts,
                                  !.availableBucketAccounts = availableBucketAccounts,
                                  !.distributions = distributions]
       IN  IF ~hasDistributions
           THEN /\ inv' = [inv EXCEPT ![p] = [called EXCEPT !.pc = "returned"]]
                /\ txs' = txs
           ELSE IF built.threw
           THEN /\ inv' = [inv EXCEPT ![p] = [called EXCEPT !.pc = "threw"]]
                /\ txs' = txs
           ELSE /\ inv' = [inv EXCEPT ![p] =
                             [called EXCEPT
                                !.pc = "returned",
                                !.transactions =
                                  [i \in 1..Len(built.transactions) |-> Len(txs) + i],
                                !.transactionCount = Len(built.transactions)]]
                /\ txs' = txs \o built.transactions
  /\ UNCHANGED <<accounts, lag, now, pageSize, last>>

InitWizard ==
  /\ accounts \in {Book(<<60, 40, 0, 0, 0>>), Book(<<30, 30, 30, 10, 0>>)}
  /\ txs = <<>>
  /\ lag = {}
  /\ now = 0
  /\ pageSize = 2
  /\ serial = 0
  /\ inv = [p \in Procs |-> Idle]
  /\ last = NoLast

NextWizard == \E p \in Procs : ApplyDistributions(p)

SpecWizard == InitWizard /\ [][NextWizard]_vars



(***************************************************************************)
(* Properties of the distribution strategies.                             *)
(***************************************************************************)
\* the transactions invocation p has created, in the order of creation
CreatedBy(p) == [i \in 1..Len(inv[p].transactions) |-> txs[inv[p].transactions[i]]]

\* the name of the bucket account an entry of context moves money into or out of
BucketSide(entry, context) ==
  IF context.direction = "deposit" THEN entry.debitAccount ELSE entry.creditAccount

AmountsOf(entries) == [i \in 1..Len(entries) |-> entries[i].amount]

\* equal up to the rounding of Number arithmetic: within a relative 10^(3 - Digits)
Close(a, b) ==
  /\ IsNum(a) /\ IsNum(b)
  /\ ~FGreater(FAbs(FSub(a, b)), FMul(FAbs(b), Dec(1, 3 - Digits)))

MatchingSuffix(book, suffix) ==
  {i \in 1..Len(book) : /\ book[i].type = "ASSET"
                        /\ book[i].percentage # Undefined
                        /\ \/ extractSuffix(book[i].name) = suffix
                           \/ \E g \in Range(book[i].groups) : extractSuffix(g) = suffix}

\* C4 (as claimed): a suffix matching K >= 1 of the bucket accounts yields
\* exactly K entries, one per matching account and none on another account,
\* whose amounts sum exactly to the context amount.
C4_SuffixCreatesKSummingExactly ==
  \A p \in Procs :
    LET r == inv[p]
        K == MatchingSuffix(accounts, r.context.suffix)
        made == CreatedBy(p)
    IN  (/\ r.pc = "returned" /\ r.mode = "distributeToSuffixBuckets"
         /\ r.context.suffix # Undefined /\ K # {})
        => /\ r.result.success
           /\ Len(made) = Cardinality(K)
           /\ \A i \in K : Cardinality({j \in 1..Len(made) :
                                BucketSide(made[j], r.context) = accounts[i].name}) = 1
           /\ \A j \in 1..Len(made) :
                \E i \in K : BucketSide(made[j], r.context) = accounts[i].name
           /\ FSum(AmountsOf(made)) = r.context.amount

\* C5 (as claimed): each matched share is original / sum * 100, the residual
\* 100 - (sum of the shares) is added to the first share whatever its size,
\* and the shares applied sum to exactly 100.
C5_SharesSumToExactly100 ==
  \A p \in Procs :
    LET r == inv[p]
        n == Len(r.targets)
        original == [i \in 1..n |-> Number(r.targets[i].account.percentage)]
        share == [i \in 1..n |-> FMul(FDiv(original[i], FSum(original)), Num(100))]
        residual == FSub(Num(100), FSum(share))
    IN  (r.strategy = "suffix" /\ n > 0)
        => /\ r.targets[1].percentage = FAdd(share[1], residual)
           /\ \A i \in 2..n : r.targets[i].percentage = share[i]
           /\ FSum([i \in 1..n |-> r.targets[i].percentage]) = Num(100)

Unqualified(context) ==
  context.suffix = Undefined /\ context.bucketOverride = Undefined

BucketIndexes(book) ==
  {i \in 1..Len(book) : book[i].type = "ASSET" /\ book[i].percentage # Undefined}

PercentagesSumTo100(book) ==
  LET B == Filter(book, BucketIndexes(book))
  IN  FSum([i \in 1..Len(B) |-> Num(B[i].percentage[1])]) = Num(100)

\* C6: for a context without suffix and override and a book whose N bucket
\* accounts have percentages summing to 100, distributeToAllBuckets returns
\* success with exactly N entries, entry i on bucket account i with the amount
\* totalAmount * percentage_i / 100, the amounts summing to the context amount
\* (both up to the rounding of Number arithmetic), and the N remote
\* identifiers pairwise distinct.
C6_FullDistribution ==
  \A p \in Procs :
    LET r == inv[p]
        B == Filter(accounts, BucketIndexes(accounts))
        made == CreatedBy(p)
    IN  (/\ r.pc = "returned" /\ r.mode = "distributeToAllBuckets"
         /\ Unqualified(r.context) /\ PercentagesSumTo100(accounts))
        => /\ r.result.success /\ ~r.result.skipped
           /\ r.result.transactionCount = Len(B)
           /\ Len(made) = Len(B)
           /\ \A i \in 1..Len(B) :
                /\ BucketSide(made[i], r.context) = B[i].name
                /\ Close(made[i].amount,
                         FDiv(FMul(r.context.amount, Num(B[i].percentage[1])), Num(100)))
           /\ Close(FSum(AmountsOf(made)), r.context.amount)
           /\ Close(r.result.totalDistributed, r.context.amount)
           /\ \A i, j \in 1..Len(made) :
                i # j => made[i].remoteIds[1] # made[j].remoteIds[1]

C6_Witness ==
  \E p \in Procs :
    /\ inv[p].pc = "returned" /\ inv[p].mode = "distributeToAllBuckets"
    /\ Unqualified(inv[p].context) /\ PercentagesSumTo100(accounts)
    /\ inv[p].result.transactionCount = 3
    /\ inv[p].context.amount = Num(90)

OverrideNames(context) == parseOverride(context.bucketOverride)

Unresolved(book, names) ==
  {names[i] : i \in {j \in 1..Len(names) : \A a \in Range(book) : a.name # names[j]}}

\* C7: if a name of bucketOverride does not resolve to an account of the
\* Bucket book, distributeToOverrideBuckets returns success = false with an
\* error naming every missing name, transactionCount 0, and creates no entry,
\* not even for the names that resolve.
C7_OverrideMissingNames ==
  \A p \in Procs :
    LET r == inv[p]
        missing == Unresolved(accounts, OverrideNames(r.context))
    IN  (/\ r.mode = "distributeToOverrideBuckets"
         /\ r.context.bucketOverride # Undefined /\ missing # {})
        => /\ r.pc = "returned"
           /\ ~r.result.success
           /\ r.result.error.message = "Accounts not found"
           /\ Range(r.result.error.names) = missing
           /\ r.result.transactionCount = 0
           /\ r.result.transactions = <<>>
           /\ txs = <<>>

C7_Witness ==
  \E p \in Procs :
    LET names == OverrideNames(inv[p].context)
    IN  /\ inv[p].pc = "returned" /\ inv[p].mode = "distributeToOverrideBuckets"
        /\ Cardinality(Unresolved(accounts, names)) = 2
        /\ \E i \in 1..Len(names) : names[i] \notin Unresolved(accounts, names)
        /\ ~inv[p].result.success

\* C8 (as claimed): when every name of bucketOverride resolves,
\* distributeToOverrideBuckets creates one entry per named account, each with
\* the amount totalAmount / count whatever the percentages of the book are,
\* and totalDistributed equals the context amount.
C8_OverrideEqualSplitExactly ==
  \A p \in Procs :
    LET r == inv[p]
        names == OverrideNames(r.context)
        made == CreatedBy(p)
    IN  (/\ r.pc = "returned" /\ r.mode = "distributeToOverrideBuckets"
         /\ r.context.bucketOverride # Undefined
         /\ Unresolved(accounts, names) = {})
        => /\ r.result.success
           /\ r.result.transactionCount = Len(names)
           /\ Len(made) = Len(names)
           /\ \A i \in 1..Len(names) :
                /\ BucketSide(made[i], r.context) = names[i]
                /\ made[i].amount = FDiv(r.context.amount, Num(Len(names)))
           /\ r.result.totalDistributed = r.context.amount

\* C8 (amended): one entry per named account, in the order of the names, all
\* of the same amount totalAmount * ((100 / count) / 100) whatever the
\* percentages of the book are; that amount is totalAmount / count and
\* totalDistributed is the context amount up to the rounding of Number
\* arithmetic.
C8_OverrideEqualSplit ==
  \A p \in Procs :
    LET r == inv[p]
        names == OverrideNames(r.context)
        made == CreatedBy(p)
    IN  (/\ r.pc = "returned" /\ r.mode = "distributeToOverrideBuckets"
         /\ r.context.bucketOverride # Undefined
         /\ Unresolved(accounts, names) = {})
        => /\ r.result.success
           /\ r.result.transactionCount = Len(names)
           /\ Len(made) = Len(names)
           /\ \A i \in 1..Len(names) :
                /\ BucketSide(made[i], r.context) = names[i]
                /\ Close(made[i].amount, FDiv(r.context.amount, Num(Len(names))))
                /\ made[i].amount = made[1].amount
           /\ Close(r.result.totalDistributed, r.context.amount)

C8_Witness ==
  \E p \in Procs :
    /\ inv[p].pc = "returned" /\ inv[p].mode = "distributeToOverrideBuckets"
    /\ inv[p].result.success
    /\ inv[p].result.transactionCount = 3
    /\ \E i \in 1..Len(accounts) :
         accounts[i].name = Trip /\ accounts[i].percentage = Undefined

(***************************************************************************)
(* Properties of the matcher.                                             *)
(***************************************************************************)
\* transaction id has a remote id that starts with glTransactionId and "_"
Qualifies(id, glTransactionId) ==
  \E k \in 1..Len(txs[id].remoteIds) : startsWith(txs[id].remoteIds[k], glTransactionId)

QualifyingOf(all, glTransactionId) ==
  Filter(all, {k \in 1..Len(all) : Qualifies(all[k], glTransactionId)})

\* the position in all of its n-th qualifying transaction, 0 for n = 0
PositionOf(all, glTransactionId, n) ==
  IF n = 0 THEN 0
  ELSE CHOOSE k \in 1..Len(all) :
         /\ Qualifies(all[k], glTransactionId)
         /\ Cardinality({j \in 1..k : Qualifies(all[j], glTransactionId)}) = n

\* the number of pages that hold the first n transactions of a result
PagesFor(n) == (n + pageSize - 1) \div pageSize

C10_StopsAtExpectedCount ==
  \A p \in Procs :
    LET r == inv[p]
        all == QueryResult(r.query)
        n == r.expectedCount[1]
        position == PositionOf(all, r.glTransactionId, n)
    IN  (/\ r.pc = "returned" /\ r.mode = "findBucketTransactionsByGlId"
         /\ r.expectedCount # Undefined
         /\ Len(QualifyingOf(all, r.glTransactionId)) >= n)
        => /\ Len(r.matching) = n
           /\ r.matching = SubSeq(QualifyingOf(all, r.glTransactionId), 1, n)
           /\ r.examined = position
           /\ r.requests = IF position = 0 THEN 1 ELSE PagesFor(position)

\* C10 (amended): the same for a positive expectedCount; an expectedCount of 0
\* is falsy on line 428 and the function then searches as without it.
C10_StopsAtPositiveExpectedCount ==
  \A p \in Procs :
    LET r == inv[p]
        all == QueryResult(r.query)
        n == r.expectedCount[1]
        position == PositionOf(all, r.glTransactionId, n)
    IN  (/\ r.pc = "returned" /\ r.mode = "findBucketTransactionsByGlId"
         /\ r.expectedCount # Undefined)
        => /\ (n >= 1 /\ Len(QualifyingOf(all, r.glTransactionId)) >= n)
                => /\ Len(r.matching) = n
                   /\ r.matching = SubSeq(QualifyingOf(all, r.glTransactionId), 1, n)
                   /\ r.examined = position
                   /\ r.requests = PagesFor(position)
           /\ n = 0 => /\ r.matching = QualifyingOf(all, r.glTransactionId)
                       /\ r.examined = Len(all)

C10_Witness ==
  \E p \in Procs :
    LET r == inv[p]
        all == QueryResult(r.query)
    IN  /\ r.pc = "returned" /\ r.mode = "findBucketTransactionsByGlId"
        /\ r.expectedCount = <<2>>
        /\ Len(r.matching) = 2
        /\ Len(QualifyingOf(all, r.glTransactionId)) = 3
        /\ r.examined = 2
        /\ r.requests = 1 /\ pageSize = 2

(***************************************************************************)
(* Properties of the webhook.                                             *)
(***************************************************************************)
\* C1 (as claimed): when the handler has finished a TRANSACTION_UPDATED event
\* for GL transaction T (here: one of a savings transaction, answered with
\* status 200), every untrashed entry with a remote id starting with T and
\* "_" was created by that invocation.
C1_UpdateLeavesOnlyItsOwnEntries ==
  \A p \in Procs :
    LET r == inv[p]
    IN  (/\ r.pc = "done" /\ r.mode = "webhook"
         /\ r.event.type = "TRANSACTION_UPDATED"
         /\ detectSavings(r.event).isSavings
         /\ r.response.status = 200)
        => \A i \in 1..Len(txs) :
             (~txs[i].trashed /\ Qualifies(i, r.event.transaction.id))
             => txs[i].by = r.serial

\* C2 (as claimed): a request that repeats the event of the request answered
\* just before it, both answered with status 200, leaves the same multiset of
\* untrashed entries as that request left.
C2_SameEventTwiceLeavesSameEntries ==
  \A p \in Procs :
    LET r == inv[p]
    IN  (/\ r.pc = "done" /\ r.mode = "webhook"
         /\ r.event = last.event
         /\ last.response.status = 200 /\ r.response.status = 200)
        => UntrashedEntries = last.entries

\* invocation r is in its create loop or has created an entry
Creating(r) == r.pc = "create" \/ \E i \in 1..Len(txs) : txs[i].by = r.serial

Verifying(r) == r.mode = "verifyTransactionsTrashed"

RoundsWithinRetries ==
  \A p \in Procs :
    LET r == inv[p]
    IN  Verifying(r) =>
          /\ r.pc \in {"verify", "returned"}
          /\ r.rounds <= r.maxRetries + 1
          /\ Len(r.matching) = 0 => r.fetched = 0 /\ r.pc = "returned"
          /\ r.pc = "verify" /\ r.rounds > 0 => Len(r.pending) > 0
          /\ r.pc = "returned" =>
                \/ Len(r.pending) = 0
                \/ r.rounds = r.maxRetries + 1

\* C11: verifyTransactionsTrashed terminates; it runs at most maxRetries + 1
\* rounds, returns as soon as a round leaves nothing pending, returns
\* normally when transactions are still untrashed after the last round, and
\* fetches nothing for no transactions.
C11_VerifyTerminates ==
  /\ []RoundsWithinRetries
  /\ \A p \in Procs : (inv[p].pc = "verify") ~> (inv[p].pc = "returned")

\* every round done, and transactions are still not trashed
C11_Witness ==
  \E p \in Procs :
    /\ Verifying(inv[p])
    /\ inv[p].pc = "returned"
    /\ inv[p].maxRetries = MaxRetries
    /\ inv[p].rounds = MaxRetries + 1
    /\ Len(inv[p].pending) > 0
    /\ inv[p].fetched > inv[p].rounds

(***************************************************************************)
(* Remote identifiers across runs.                                        *)
(***************************************************************************)
\* C12: two distribution runs for the same source id and the same bucket
\* account never produce the same remote identifier.
C12_RemoteIdsNeverCollide ==
  \A i, j \in 1..Len(txs) :
    txs[i].by # txs[j].by => txs[i].remoteIds # txs[j].remoteIds

(***************************************************************************)
(* Balance validation called directly.  The balances are read in          *)
(* thousandths, as integers.                                              *)
(***************************************************************************)
Milli(a) == a.m * Pow10(a.e + 3)

RECURSIVE SumOf(_)
SumOf(s) == IF s = <<>> THEN 0 ELSE Head(s) + SumOf(Tail(s))

\* the balances of the GL accounts whose savings property is "true"
GlMilli(glBook) ==
  SumOf([i \in 1..Len(glBook) |->
           IF glBook[i].account.savings = "true" THEN Milli(glBook[i].balance) ELSE 0])

\* the balances of the ASSET accounts of the Bucket book with a percentage
BucketMilli ==
  LET names == {accounts[i].name :
                  i \in {k \in 1..Len(accounts) :
                           /\ accounts[k].type = "ASSET"
                           /\ accounts[k].percentage # Undefined}}
  IN  SumOf([i \in 1..Len(txs) |->
               IF txs[i].trashed THEN 0
               ELSE (IF txs[i].debitAccount \in names THEN Milli(txs[i].amount) ELSE 0)
                    - (IF txs[i].creditAccount \in names THEN Milli(txs[i].amount) ELSE 0)])

CreatedIn(r) == {i \in 1..Len(txs) : txs[i].by = r.serial}

\* an invocation is about to check only after a balanced validation, and one
\* that answers after an unbalanced validation leaves its entries unchecked
CheckFollowsBalance ==
  \A p \in Procs :
    LET r == inv[p]
    IN  r.mode = "webhook" =>
          /\ r.pc = "check" => r.balanceValidation.isBalanced
          /\ r.pc = "done" /\ r.response.checkedCount > 0 => r.balanceValidation.isBalanced
          /\ r.pc = "done" /\ r.response.status = 200 /\ ~r.balanceValidation.isBalanced
               => \A i \in CreatedIn(r) : ~txs[i].checked

\* a step that marks entries checked is the check of an invocation whose
\* validation was balanced, and marks exactly the entries it created
ChecksItsOwn ==
  \A i \in 1..Len(txs) :
    ~txs[i].checked /\ txs'[i].checked =>
      \E p \in Procs :
        /\ inv[p].pc = "check"
        /\ inv[p].balanceValidation.isBalanced
        /\ {j \in 1..Len(txs) : ~txs[j].checked /\ txs'[j].checked} = CreatedIn(inv[p])
        /\ CreatedIn(inv[p]) = Range(inv[p].result.transactions)

\* C14: in every handler path that distributes, entries are marked checked
\* only if validateBalances of the same invocation returned isBalanced, and
\* then exactly the entries the invocation created; when the books are not
\* balanced nothing is marked and the new entries stay unchecked.
C14_CheckedOnlyWhenBalanced == []CheckFollowsBalance /\ [][ChecksItsOwn]_vars

\* an initialization answers after an unbalanced validation with its entries
\* unchecked, next to the checked entries of an earlier invocation
C14_Witness ==
  \E p \in Procs :
    /\ inv[p].pc = "done"
    /\ inv[p].event.type = "ACCOUNT_UPDATED"
    /\ inv[p].result.transactionCount > 0
    /\ ~inv[p].balanceValidation.isBalanced
    /\ \E i \in 1..Len(txs) : txs[i].checked /\ txs[i].by # inv[p].serial

(***************************************************************************)
(* The validation of the percentages before a distribution.               *)
(***************************************************************************)
\* C15: no invocation of the handler creates a bucket-side entry unless
\* validatePercentages, evaluated in that invocation before the
\* distribution, reported percentages that sum to exactly 100.
C15_CreatesOnlyAfterValidPercentages ==
  \A p \in Procs :
    LET r == inv[p]
    IN  r.mode = "webhook" /\ (r.pc = "create" \/ CreatedIn(r) # {}) =>
          /\ r.validation.isValid
          /\ r.validation.totalPercentage = Num(100)
          /\ PercentagesSumTo100(accounts)

\* an initialization and a transaction event have both created entries
C15_Witness ==
  \E p \in Procs :
    /\ inv[p].mode = "webhook"
    /\ inv[p].event.type = "ACCOUNT_UPDATED"
    /\ inv[p].validation.isValid
    /\ CreatedIn(inv[p]) # {}
    /\ \E i \in 1..Len(txs) : txs[i].by # inv[p].serial

(***************************************************************************)
(* Missing clearing accounts.                                             *)
(***************************************************************************)
\* the clearing account the direction of the context needs
Clearing(context) ==
  IF context.direction = "deposit" THEN context.bucketIncomeAcc
  ELSE context.bucketWithdrawalAcc

\* C16: a strategy called with a context whose clearing account (income for
\* a deposit, withdrawal for a withdrawal) is not in the Bucket book returns
\* a failure with a message and creates no entry.
C16_MissingClearingAccountFails ==
  \A p \in Procs :
    LET r == inv[p]
    IN  r.mode \in DirectModes /\ getAccount(accounts, Clearing(r.context)) = Null =>
          /\ r.pc = "returned"
          /\ ~r.result.success
          /\ r.result.error # NoError
          /\ CreatedIn(r) = {}

(***************************************************************************)
(* A create that fails partway.                                           *)
(***************************************************************************)
\* C17: when the create of a target fails partway through the loop, the
\* entries created before it remain, and the caller receives a result whose
\* transactionCount and totalDistributed count the entries created.
C17_PartialFailureReturnsShorterResult ==
  \A p \in Procs :
    LET r == inv[p]
    IN  r.mode \in DirectModes /\ r.pc # "create" /\ Len(r.todo) > 0 =>
          /\ \A i \in CreatedIn(r) : ~txs[i].trashed
          /\ r.pc = "returned"
          /\ r.result.transactionCount = Cardinality(CreatedIn(r))
          /\ r.result.totalDistributed = FSum([k \in 1..Len(r.transactions) |->
                                                 txs[r.transactions[k]].amount])

(***************************************************************************)
(* The worked example: 1000 into "RDB LONG".                              *)
(***************************************************************************)
\* the request for the posted transaction of the example has answered with success
ExampleAnswered(r) ==
  /\ r.mode = "webhook" /\ r.pc = "done"
  /\ r.event = Deposit("TRANSACTION_POSTED", "D1", Num(1000))
  /\ r.response.status = 200 /\ r.response.success

\* entry i moves amount from the income clearing account into the bucket account name
Into(i, name, amount) ==
  /\ txs[i].debitAccount = name
  /\ txs[i].creditAccount = Savings
  /\ txs[i].amount = Num(amount)

\* C18 (as claimed): the posted deposit of 1000 into "RDB LONG" on the book
\* "Car LONG" 60%, "Car SHORT" 40%, "Other" 0% produces exactly two entries,
\* 600 into "Car LONG" and 400 into "Car SHORT", both crediting the income
\* clearing account.
C18_TwoEntries600And400 ==
  \A p \in Procs :
    ExampleAnswered(inv[p]) =>
      \E i, j \in CreatedIn(inv[p]) :
        /\ CreatedIn(inv[p]) = {i, j} /\ i # j
        /\ Into(i, CarLONG, 600)
        /\ Into(j, CarSHORT, 400)

\* C18 (amended): the posted deposit of 1000 into "RDB LONG" on that book
\* produces exactly one entry, 1000 into "Car LONG", the only account whose
\* suffix is LONG, crediting the income clearing account.
C18_OneEntryOf1000 ==
  \A p \in Procs :
    ExampleAnswered(inv[p]) =>
      /\ inv[p].context.suffix = LONG
      /\ \E i \in CreatedIn(inv[p]) :
           /\ CreatedIn(inv[p]) = {i}
           /\ Into(i, CarLONG, 1000)

C18_Witness ==
  \E p \in Procs :
    /\ ExampleAnswered(inv[p])
    /\ accounts = ScenarioBook
    /\ inv[p].result.transactionCount = 1

(***************************************************************************)
(* Archived savings accounts.                                             *)
(***************************************************************************)
\* the request of a transaction event whose savings account is archived
OnArchivedSavings(r) ==
  /\ r.event.type \in {"TRANSACTION_POSTED", "TRANSACTION_UPDATED", "TRANSACTION_UNTRASHED"}
  /\ \E account \in {r.event.transaction.debitAccount, r.event.transaction.creditAccount} :
       /\ accountHasSavings(account)
       /\ account.archived
       /\ r.context.savingsAccountId = account.id

\* an archive, unarchive or delete event of a savings account is on its way
\* to the cleanup or the initialization the handler names in its answer
LifecycleHandled(r) ==
  LET e == r.event
      previousActive == e.previousAttributes.active
  IN  /\ e.account.id # Undefined /\ accountHasSavings(e.account) /\ e.oauthToken
      /\ r.pc \notin {"idle", "done"}
      => /\ (e.type = "ACCOUNT_UPDATED" /\ previousActive = <<"true">> /\ e.account.archived)
              => r.response.action = "archive_cleanup" /\ r.query.glAccountId = e.account.id
         /\ (e.type = "ACCOUNT_UPDATED" /\ previousActive = <<"false">> /\ ~e.account.archived
              /\ e.account.type = "ASSET")
              => r.response.action = "unarchive_initialization"
         /\ e.type = "ACCOUNT_DELETED"
              => r.response.action = "cleanup" /\ r.query.glAccountId = e.account.id

\* C19: a transaction event (posted, updated, untrashed) whose savings account
\* is archived creates no bucket-side entry, while the archive, unarchive and
\* delete events of a savings account still lead to cleanup or initialization.
C19_ArchivedExcludedFromRouting ==
  \A p \in Procs :
    LET r == inv[p]
    IN  r.mode = "webhook" =>
          /\ OnArchivedSavings(r) => r.pc # "create" /\ CreatedIn(r) = {}
          /\ LifecycleHandled(r)

(***************************************************************************)
(* The direction detectSavings determines.                                *)
(***************************************************************************)
\* detectSavings has returned a context whose savings account is account
SavingsContextOf(r, direction, account) ==
  /\ r.isSavings
  /\ r.context.direction = direction
  /\ r.context.savingsAccountName = account.name
  /\ r.context.savingsAccountId = account.id
  /\ r.context.savingsAccountNormalizedName = account.normalizedName
  /\ r.context.savingsGroupName = Undefined

\* C20: for a payload of a GL book with its bucket book, a debited account
\* with savings "true" makes the result a deposit with the debited account as
\* savings account, also when the credited account has it too; otherwise a
\* credited account with savings "true" makes it a withdrawal with the
\* credited account as savings account; savingsGroupName is unset in both.
C20_DebitedAccountTakesPrecedence ==
  \A p \in Procs :
    LET r == inv[p]
        debitAccount == r.event.transaction.debitAccount
        creditAccount == r.event.transaction.creditAccount
    IN  (/\ r.mode = "detectSavings" /\ r.pc = "returned"
         /\ r.event.book.bucket_book_id = BucketBookId)
        => /\ accountHasSavings(debitAccount)
                => SavingsContextOf(r, "deposit", debitAccount)
           /\ ~accountHasSavings(debitAccount) /\ accountHasSavings(creditAccount)
                => SavingsContextOf(r, "withdrawal", creditAccount)

\* both accounts have the property, and the debited one also has a savings group
C20_Witness ==
  \E p \in Procs :
    LET r == inv[p]
    IN  /\ r.mode = "detectSavings" /\ r.pc = "returned" /\ r.isSavings
        /\ accountHasSavings(r.event.transaction.debitAccount)
        /\ accountHasSavings(r.event.transaction.creditAccount)
        /\ r.event.transaction.debitAccount # r.event.transaction.creditAccount
        /\ findSavingsGroup(r.event.transaction.debitAccount) # 0
        /\ r.context.direction = "deposit"

(***************************************************************************)
(* Detection through the groups.                                          *)
(***************************************************************************)
\* account may be detected through its groups: savings is not "false" on
\* the account and "true" on one of its groups
Eligible(account) ==
  /\ account.savings # "false"
  /\ \E g \in 1..Len(account.groups) : account.groups[g].savings = "true"

\* detectSavings has returned a context for account, found through its first
\* group with savings "true"
GroupContextOf(r, direction, account) ==
  /\ r.isSavings
  /\ r.context.direction = direction
  /\ r.context.savingsAccountName = account.name
  /\ r.context.savingsAccountId = account.id
  /\ \E g \in 1..Len(account.groups) :
       /\ account.groups[g].savings = "true"
       /\ \A h \in 1..(g - 1) : account.groups[h].savings # "true"
       /\ r.context.savingsGroupName = account.groups[g].name

\* C21: when neither account has savings "true" (and the GL book names its
\* bucket book), the groups decide, the debited account first: an account
\* without savings "false" whose groups hold one with savings "true" gives a
\* deposit (debited) or a withdrawal (credited) with savingsGroupName the
\* first such group; an account with savings "false" is never detected
\* through its groups; if neither account is eligible the result is not savings.
C21_GroupsDebitedFirst ==
  \A p \in Procs :
    LET r == inv[p]
        debitAccount == r.event.transaction.debitAccount
        creditAccount == r.event.transaction.creditAccount
    IN  (/\ r.mode = "detectSavings" /\ r.pc = "returned"
         /\ r.event.book.bucket_book_id = BucketBookId
         /\ debitAccount.savings # "true" /\ creditAccount.savings # "true")
        => /\ Eligible(debitAccount) => GroupContextOf(r, "deposit", debitAccount)
           /\ ~Eligible(debitAccount) /\ Eligible(creditAccount)
                => GroupContextOf(r, "withdrawal", creditAccount)
           /\ ~Eligible(debitAccount) /\ ~Eligible(creditAccount) => ~r.isSavings

\* the debited account has savings "false" and a savings group, and the
\* credited account is found through the second of its four groups
C21_Witness ==
  \E p \in Procs :
    LET r == inv[p]
    IN  /\ r.mode = "detectSavings" /\ r.pc = "returned" /\ r.isSavings
        /\ r.event.transaction.debitAccount = [Pot EXCEPT !.savings = "false"]
        /\ r.event.transaction.creditAccount = Jar
        /\ r.context.direction = "withdrawal"
        /\ r.context.savingsGroupName = Rainy.name

(***************************************************************************)
(* The routing drivers of a context: override and suffix.                 *)
(***************************************************************************)
\* C22: a context produced by detectSavings for a transaction with a bucket
\* property carries that override and no suffix, whatever the names of the
\* account and of its groups; no produced context has both a suffix and an
\* override.
C22_AtMostOneRoutingDriver ==
  \A p \in Procs :
    LET r == inv[p]
    IN  r.mode = "detectSavings" /\ r.pc = "returned" /\ r.isSavings =>
          /\ r.event.transaction.bucket # Undefined
               => /\ r.context.bucketOverride = r.event.transaction.bucket
                  /\ r.context.suffix = Undefined
          /\ ~(r.context.suffix # Undefined /\ r.context.bucketOverride # Undefined)

\* an override on a transaction whose savings account has a suffix on its
\* name and on its group
C22_Witness ==
  \E p \in Procs :
    LET r == inv[p]
    IN  /\ r.mode = "detectSavings" /\ r.pc = "returned" /\ r.isSavings
        /\ r.context.bucketOverride = CarLONGcommaOther
        /\ r.context.savingsAccountName = RDBLONG.name
        /\ r.event.transaction.debitAccount.groups = Pot.groups
        /\ r.context.suffix = Undefined

\* the names a suffix may come from, in the order they are tried
SuffixSources(r, account) ==
  (IF r.context.savingsGroupName # Undefined THEN <<r.context.savingsGroupName>> ELSE <<>>)
    \o <<account.name>>
    \o [g \in 1..Len(account.groups) |-> account.groups[g].name]

\* C23: without an override, the suffix of the context is the first suffix
\* that extractSuffix yields on, in this order, the name of the savings group
\* (if the detection was through a group), the name of the savings account,
\* and the names of the account's groups in list order; it is unset only if
\* none of them yields one.
C23_SuffixDerivationOrder ==
  \A p \in Procs :
    LET r == inv[p]
        account == IF r.context.direction = "deposit"
                   THEN r.event.transaction.debitAccount
                   ELSE r.event.transaction.creditAccount
        sources == SuffixSources(r, account)
        yielding == {k \in 1..Len(sources) : extractSuffix(sources[k]) # Undefined}
    IN  (/\ r.mode = "detectSavings" /\ r.pc = "returned" /\ r.isSavings
         /\ r.event.transaction.bucket = Undefined)
        => IF yielding = {} THEN r.context.suffix = Undefined
           ELSE \E k \in yielding :
                  /\ \A j \in yielding : k <= j
                  /\ r.context.suffix = extractSuffix(sources[k])

\* the savings group's SHORT wins over the QUICK of the account's name
C23_Witness ==
  \E p \in Procs :
    LET r == inv[p]
    IN  /\ r.mode = "detectSavings" /\ r.pc = "returned" /\ r.isSavings
        /\ r.event.transaction.bucket = Undefined
        /\ r.context.savingsAccountName = TinQUICK.name
        /\ r.context.savingsGroupName = Pot.groups[1].name
        /\ r.context.suffix = SHORT

(***************************************************************************)
(* Detection non-matches.                                                 *)
(***************************************************************************)
\* the payload of a transaction event gives detectSavings nothing to match:
\* no bucket_book_id, no book of the collection with that id, or no savings
\* on either account and on any of their groups
NonMatch(payload) ==
  /\ payload.type \in TransactionEvents
  /\ \/ payload.book.bucket_book_id = ""
     \/ \A b \in 1..Len(payload.book.books) :
          payload.book.books[b].id # payload.book.bucket_book_id
     \/ \A account \in {payload.transaction.debitAccount, payload.transaction.creditAccount} :
          /\ account.savings # "true"
          /\ \A g \in 1..Len(account.groups) : account.groups[g].savings # "true"

\* the request of a non-match has answered success, and has written nothing
AnsweredWithoutWrite ==
  \A p \in Procs :
    LET r == inv[p]
    IN  r.mode = "webhook" /\ NonMatch(r.event) =>
          /\ ~detectSavings(r.event).isSavings
          /\ r.pc = "done"
          /\ r.response = Json(TRUE, NoError)
          /\ r.transactions = <<>> /\ CreatedIn(r) = {}

\* receiving a non-match leaves the Bucket book as it is
ReceivedWithoutWrite ==
  \A p \in Procs :
    inv'[p] # inv[p] /\ inv'[p].mode = "webhook" /\ NonMatch(inv'[p].event)
      => txs' = txs /\ lag' = lag /\ accounts' = accounts

\* C24: for a transaction event of a GL book without bucket_book_id, or whose
\* bucket book is not among the collection's books, or whose accounts and
\* groups carry no savings, detectSavings returns isSavings false and the
\* handler answers success without creating, trashing or checking anything.
C24_NonMatchIsNoOp == []AnsweredWithoutWrite /\ [][ReceivedWithoutWrite]_vars

\* a non-match update has been answered while entries of its transaction exist
C24_Witness ==
  \E p \in Procs :
    /\ inv[p].mode = "webhook" /\ inv[p].pc = "done"
    /\ inv[p].event.type = "TRANSACTION_UPDATED"
    /\ inv[p].event.book.bucket_book_id = "missing-book"
    /\ \E i \in 1..Len(txs) : ~txs[i].trashed /\ ~txs[i].checked

(***************************************************************************)
(* extractSuffix.                                                         *)
(***************************************************************************)
\* the positions of name that hold no whitespace
Inked(name) == {i \in 1..Len(name) : name[i] \notin {" ", "\t"}}

\* the first position of the last token of name (name holds a token)
LastTokenStart(name) ==
  LET end == CHOOSE e \in Inked(name) : \A i \in Inked(name) : i <= e
      starts == {s \in 1..end : \A j \in s..end : j \in Inked(name)}
  IN  CHOOSE s \in starts : \A u \in starts : s <= u

LastToken(name) ==
  LET end == CHOOSE e \in Inked(name) : \A i \in Inked(name) : i <= e
  IN  SubSeq(name, LastTokenStart(name), end)

\* C25: extractSuffix returns the last whitespace-separated token of a name
\* if the name has at least two tokens and the last one consists solely of
\* the letters A-Z, and no suffix for every other name.
C25_ExtractSuffix ==
  \A p \in Procs :
    LET r == inv[p]
        name == r.name
    IN  r.mode = "extractSuffix" /\ r.pc = "returned" =>
          IF /\ Inked(name) # {}
             /\ \E i \in Inked(name) : i < LastTokenStart(name)
             /\ \A j \in 1..Len(LastToken(name)) : LastToken(name)[j] \in UpperLetters
          THEN r.suffix = LastToken(name)
          ELSE r.suffix = Undefined

\* a suffix after a tab and before trailing whitespace
C25_Witness ==
  \E p \in Procs :
    /\ inv[p].mode = "extractSuffix" /\ inv[p].pc = "returned"
    /\ inv[p].name = <<"b", "\t", "Z", " ">>
    /\ inv[p].suffix = <<"Z">>

(***************************************************************************)
(* validatePercentages.                                                   *)
(***************************************************************************)
\* the percentages, as integers, of the ASSET accounts of the Bucket book
\* that have the property; 0 stands for every other account
AssetPercentages ==
  [i \in 1..Len(accounts) |->
     IF accounts[i].type = "ASSET" /\ accounts[i].percentage # Undefined
     THEN accounts[i].percentage[1] ELSE 0]

\* C26: validatePercentages reports as totalPercentage the sum of the
\* percentages of exactly the ASSET accounts that have a percentage property,
\* as accountCount the number of those accounts, and isValid exactly if the
\* sum is 100.
C26_ValidatePercentages ==
  \A p \in Procs :
    LET r == inv[p]
    IN  r.mode = "validatePercentages" /\ r.pc = "returned" =>
          /\ r.validation.totalPercentage = Num(SumOf(AssetPercentages))
          /\ r.validation.accountCount =
               Cardinality({i \in 1..Len(accounts) :
                              /\ accounts[i].type = "ASSET"
                              /\ accounts[i].percentage # Undefined})
          /\ r.validation.isValid <=> SumOf(AssetPercentages) = 100

\* the ASSET accounts sum to 90 and the liability adds 10: invalid, four
\* accounts counted, one of them at 0%
C26_Witness ==
  \E p \in Procs :
    /\ inv[p].mode = "validatePercentages" /\ inv[p].pc = "returned"
    /\ accounts = Book(<<50, 20, 0, -1, 20>>)
    /\ ~inv[p].validation.isValid
    /\ inv[p].validation.totalPercentage = Num(90)
    /\ inv[p].validation.accountCount = 4

(***************************************************************************)
(* The sides of an entry.                                                 *)
(***************************************************************************)
\* C27: every entry created by one of the three strategies (in a book that
\* has both clearing accounts) has its sides set by the direction: for a
\* deposit the income clearing account on the credit side and the bucket
\* account of its target on the debit side, for a withdrawal the bucket
\* account on the credit side and the withdrawal clearing account on the
\* debit side.
C27_SidesFollowDirection ==
  \A p \in Procs :
    LET r == inv[p]
    IN  r.mode \in DirectModes =>
          \A k \in 1..Len(r.transactions) :
            LET entry == txs[r.transactions[k]]
                bucketAccount == r.targets[k].account.name
            IN  /\ bucketAccount \notin {Savings, Withdrawal}
                /\ r.context.direction = "deposit"
                     => entry.creditAccount = Savings /\ entry.debitAccount = bucketAccount
                /\ r.context.direction = "withdrawal"
                     => entry.creditAccount = bucketAccount /\ entry.debitAccount = Withdrawal

\* the suffix strategy has created the entries of a withdrawal
C27_Witness ==
  \E p \in Procs :
    /\ inv[p].mode = "distributeToSuffixBuckets" /\ inv[p].pc = "returned"
    /\ inv[p].context.direction = "withdrawal"
    /\ Len(inv[p].transactions) >= 2
    /\ txs[inv[p].transactions[2]].creditAccount = FunLONG
    /\ txs[inv[p].transactions[2]].debitAccount = Withdrawal

(***************************************************************************)
(* The full distribution and qualified events.                            *)
(***************************************************************************)
\* a call of distributeToAllBuckets with a suffix or an override
Qualified(r) ==
  /\ r.mode = "distributeToAllBuckets"
  /\ r.context.suffix # Undefined \/ r.context.bucketOverride # Undefined

\* such a call has returned the skipped result and has created nothing
SkippedResult ==
  \A p \in Procs :
    Qualified(inv[p]) =>
      /\ inv[p].pc = "returned"
      /\ inv[p].result.success /\ inv[p].result.skipped
      /\ inv[p].result.transactionCount = 0
      /\ inv[p].result.totalDistributed = Num(0)
      /\ inv[p].result.transactions = <<>>
      /\ inv[p].requests = 0
      /\ CreatedIn(inv[p]) = {}

\* the step of such a call leaves the Bucket book untouched
SkippedWithoutCall ==
  \A p \in Procs :
    inv'[p] # inv[p] /\ (Qualified(inv[p]) \/ Qualified(inv'[p]))
      => txs' = txs /\ lag' = lag /\ now' = now

\* C28: distributeToAllBuckets called with a context that carries a suffix
\* or a bucketOverride returns success, skipped, transactionCount 0 and
\* totalDistributed 0 at once, creating no entry and calling nothing remote.
C28_QualifiedIsSkipped == []SkippedResult /\ [][SkippedWithoutCall]_vars

\* skipped for a suffix on a book whose percentages sum to 100
C28_Witness ==
  \E p \in Procs :
    /\ Qualified(inv[p]) /\ inv[p].pc = "returned"
    /\ inv[p].context.suffix = LONG
    /\ inv[p].result.skipped
    /\ validatePercentages(accounts).isValid

(***************************************************************************)
(* A suffix that matches no bucket account.                               *)
(***************************************************************************)
\* C29: when no ASSET account with a percentage matches the suffix of the
\* context, by its own name or by the name of one of its groups,
\* distributeToSuffixBuckets returns success false with the error that names
\* the suffix, not skipped, and creates no entry.
C29_NoMatchingSuffixFails ==
  \A p \in Procs :
    LET r == inv[p]
    IN  (/\ r.mode = "distributeToSuffixBuckets" /\ r.context.suffix # Undefined
         /\ MatchingSuffix(accounts, r.context.suffix) = {})
        => /\ r.pc = "returned"
           /\ ~r.result.success /\ ~r.result.skipped
           /\ r.result.error = Error("No accounts match suffix in bucket book",
                                      <<r.context.suffix>>)
           /\ r.result.transactionCount = 0
           /\ r.result.totalDistributed = Num(0)
           /\ CreatedIn(r) = {} /\ txs = <<>>

\* the suffix LONG where only the liability "Loan LONG" has a percentage
C29_Witness ==
  \E p \in Procs :
    /\ inv[p].mode = "distributeToSuffixBuckets" /\ inv[p].pc = "returned"
    /\ inv[p].context.suffix = LONG
    /\ accounts = Book(<<-1, -1, -1, 60, 40>>)
    /\ ~inv[p].result.success

(***************************************************************************)
(* The cleanup of an account's entries.                                   *)
(***************************************************************************)
\* the event tells that a savings account was archived, lost its savings
\* property, or was deleted
EndsSavings(e) ==
  \/ /\ e.type = "ACCOUNT_UPDATED" /\ e.previousAttributes.active = <<"true">>
     /\ e.account.archived /\ e.account.savings = "true"
  \/ /\ e.type = "ACCOUNT_UPDATED" /\ e.previousAttributes.active = Undefined
     /\ e.previousAttributes.savings = <<"true">> /\ e.account.savings # "true"
  \/ e.type = "ACCOUNT_DELETED" /\ e.account.savings = "true"

InitializationDue(e) ==
  /\ e.type = "ACCOUNT_UPDATED" /\ e.account.id # Undefined
  /\ e.account.savings = "true" /\ ~e.account.archived
  /\ \/ e.previousAttributes.active = <<"false">>
     \/ /\ e.previousAttributes.savings # Undefined
        /\ e.previousAttributes.savings # <<"true">>

\* C31: the handler of an ACCOUNT_UPDATED event creates entries only if
\* savings became "true" on a non-archived account or a savings account was
\* unarchived, the account is of type ASSET and the balance fetched from the
\* GL book is greater than 0; for such an event of a non-ASSET account, or
\* with a fetched balance of 0 or less, it has created no entry and answers
\* success.
C31_InitializationGuards ==
  \A p \in Procs :
    LET r == inv[p]
        e == r.event
    IN  r.mode = "webhook" /\ e.type = "ACCOUNT_UPDATED" =>
          /\ (r.pc = "create" \/ CreatedIn(r) # {})
               => /\ InitializationDue(e)
                  /\ e.account.type = "ASSET"
                  /\ FGreater(r.balance, Num(0))
                  /\ r.context.isInitialization /\ r.context.amount = r.balance
          /\ (/\ InitializationDue(e)
              /\ \/ e.account.type # "ASSET"
                 \/ IsNum(r.balance) /\ ~FGreater(r.balance, Num(0)))
               => /\ r.pc = "done"
                  /\ r.response = Json(TRUE, NoError)
                  /\ CreatedIn(r) = {}

\* an unarchived account with a negative balance was answered without entry
\* while entries of an earlier initialization exist
C31_Witness ==
  \E p \in Procs :
    LET r == inv[p]
    IN  /\ r.mode = "webhook" /\ r.pc = "done"
        /\ InitializationDue(r.event)
        /\ r.event.previousAttributes.active = <<"false">>
        /\ r.balance = FNeg(Num(50))
        /\ CreatedIn(r) = {}
        /\ \E i \in 1..Len(txs) : startsWith(txs[i].remoteIds[1], <<"init">>)

(***************************************************************************)
(* A deleted transaction.                                                 *)
(***************************************************************************)
\* the handler of a TRANSACTION_DELETED event is searching, trashing,
\* verifying or answering; it has created nothing, and what it found for the
\* trash are entries of its transaction
DeletedOnlySearchesAndTrashes ==
  \A p \in Procs :
    LET r == inv[p]
    IN  r.mode = "webhook" /\ r.event.type = "TRANSACTION_DELETED" =>
          /\ r.pc \in {"search", "trash", "verify", "done"}
          /\ CreatedIn(r) = {} /\ r.transactions = <<>>
          /\ r.response.checkedCount = 0
          /\ \A i \in Range(r.matching) :
               \E k \in 1..Len(txs[i].remoteIds) :
                 startsWith(txs[i].remoteIds[k], r.event.transaction.id)
          /\ r.pc = "done" =>
               r.response = [Json(TRUE, NoError) EXCEPT !.trashedCount = Len(r.matching)]

\* a step of that handler adds no entry and checks none: an entry changes
\* only by being trashed, and only if it was found for the transaction
DeletedStepOnlyTrashes ==
  \A p \in Procs :
    (/\ inv[p].mode = "webhook" /\ inv[p].event.type = "TRANSACTION_DELETED"
     /\ inv[p].pc \notin {"idle", "done"})
    => /\ Len(txs') = Len(txs)
       /\ \A i \in 1..Len(txs) :
            \/ txs'[i] = txs[i]
            \/ /\ i \in Range(inv[p].matching)
               /\ txs'[i] = [txs[i] EXCEPT !.trashed = TRUE, !.checked = FALSE]

\* C32: handling TRANSACTION_DELETED for a savings transaction T only
\* trashes: the entries found for T are passed to the batch trash, no entry
\* is created and none is marked checked, whether or not the bucket
\* percentages sum to 100.
C32_DeletedOnlyTrashes ==
  []DeletedOnlySearchesAndTrashes /\ [][DeletedStepOnlyTrashes]_vars

\* entries of T1 were trashed, the entry of T2 was not, on percentages that
\* sum to 80
C32_Witness ==
  \E p \in Procs :
    LET r == inv[p]
    IN  /\ r.mode = "webhook" /\ r.event.type = "TRANSACTION_DELETED" /\ r.pc = "done"
        /\ ~validatePercentages(accounts).isValid
        /\ r.response.trashedCount = 1
        /\ \E i, j \in 1..Len(txs) : txs[i].trashed /\ ~txs[j].trashed

(***************************************************************************)
(* Creation and lookup.                                                   *)
(***************************************************************************)
\* entry i was created by a distribution that was no initialization, for the
\* source transaction id
CreatedFor(i, id) ==
  \E q \in Procs :
    /\ inv[q].mode \in DirectModes
    /\ txs[i].by = inv[q].serial
    /\ ~inv[q].context.isInitialization
    /\ inv[q].context.transactionId = id

\* C33: an entry listed by the hashtag-and-date query is returned by
\* findBucketTransactionsByGlId for the id T exactly if a distribution that
\* was no initialization created it for the source transaction id T; entries
\* of another transaction id and of an initialization are not returned.
C33_LookupReturnsTheEntriesCreatedFor ==
  \A p \in Procs :
    LET r == inv[p]
    IN  r.mode = "findBucketTransactionsByGlId" /\ r.pc = "returned" =>
          \A i \in Range(QueryResult(r.query)) :
            i \in Range(r.matching) <=> CreatedFor(i, r.glTransactionId)

(***************************************************************************)
(* Posted, deleted, untrashed.                                            *)
(***************************************************************************)
\* the entries created by the k-th request of the sequence
CreatedByRequest(k) == {i \in 1..Len(txs) : txs[i].by = k}

\* the entries that carry an identifier of transaction id
EntriesOf(id) ==
  {i \in 1..Len(txs) : \E k \in 1..Len(txs[i].remoteIds) : startsWith(txs[i].remoteIds[k], id)}

\* C34: once TRANSACTION_UNTRASHED of T is being handled after
\* TRANSACTION_POSTED and TRANSACTION_DELETED of T, on valid percentages, the
\* untrashed entries of T are exactly the entries created by the handler of
\* TRANSACTION_UNTRASHED; the entries created on POSTED are trashed and stay
\* so, and no identifier of a new entry is an identifier of an earlier one.
C34_UntrashedCreatesAnew ==
  serial = Len(LifeOfT) =>
    /\ \A i \in CreatedByRequest(1) : txs[i].trashed
    /\ EntriesOf(<<"T1">>) \cap Untrashed = CreatedByRequest(3)
    /\ \A i \in CreatedByRequest(3), j \in 1..Len(txs) :
         i # j => Range(txs[i].remoteIds) \cap Range(txs[j].remoteIds) = {}

\* the third request is answered: the entries of the posted event are
\* trashed and as many new ones are there
C34_Witness ==
  /\ serial = Len(LifeOfT)
  /\ inv[1].pc = "done" /\ inv[1].event.type = "TRANSACTION_UNTRASHED"
  /\ inv[1].response.success
  /\ Cardinality(CreatedByRequest(1)) >= 2
  /\ Cardinality(CreatedByRequest(3)) = Cardinality(CreatedByRequest(1))

(***************************************************************************)
(* The balance over a sequence of events.                                 *)
(***************************************************************************)
\* C35: from balanced books and with percentages that sum to 100, after every
\* event of a sequence handled in turn and answered with success, the GL
\* savings total and the Bucket total are balanced again.
C35_BalancedAfterEveryEvent ==
  (/\ serial >= 1
   /\ \A p \in Procs : inv[p].pc = "idle"
   /\ last.response.success)
  => validateBalances(GlSavingsTotal, getBucketTotal).isBalanced

(***************************************************************************)
(* Two invocations for the same update.                                   *)
(***************************************************************************)
\* both invocations have completed: the untrashed entries of T1 are the
\* entries of one of them and sum to the amount
OneDistributionOfT ==
  (\A p \in Procs : inv[p].mode = "webhook" /\ inv[p].pc = "done")
  => \E q \in Procs :
       /\ EntriesOf(<<"T1">>) \cap Untrashed = CreatedIn(inv[q])
       /\ FSum([k \in 1..Len(inv[q].transactions) |->
                  txs[inv[q].transactions[k]].amount]) = inv[q].event.transaction.amount

\* an invocation that answers with success has its entries untrashed then
SuccessWithEntries ==
  \A p \in Procs :
    inv[p].pc # "done" /\ inv'[p].pc = "done" /\ inv'[p].response.success
    => \A i \in CreatedIn(inv'[p]) : ~txs'[i].trashed

\* C36: once two interleaved invocations for TRANSACTION_UPDATED of T have
\* both completed, the untrashed entries of T are the entries of one of them,
\* a single distribution of T's amount, and no invocation reports success
\* while the entries it created have been trashed by the other.
C36_OneDistributionRemains ==
  []OneDistributionOfT /\ [][SuccessWithEntries]_vars

(***************************************************************************)
(* A failed edit.                                                         *)
(***************************************************************************)
ConfigurationFailures ==
  {"Cannot distribute: bucket percentages do not sum to 100%",
   "No accounts match suffix in bucket book", "Accounts not found"}

\* C37: when the handling of TRANSACTION_UPDATED for T ends in a
\* configuration failure (percentages not summing to 100, no account for the
\* suffix, a missing override account), the entries created for T before are
\* untrashed as they were and no new entry exists.
C37_FailedEditChangesNothing ==
  \A p \in Procs :
    LET r == inv[p]
    IN  (/\ r.mode = "webhook" /\ r.event.type = "TRANSACTION_UPDATED" /\ r.pc = "done"
         /\ ~r.response.success
         /\ r.response.error.message \in ConfigurationFailures)
        => /\ \A i \in EntriesOf(<<"T1">>) : ~txs[i].trashed
           /\ CreatedIn(r) = {}

(***************************************************************************)
(* The amounts of a successful suffix distribution.                       *)
(***************************************************************************)
\* C38: when distributeToSuffixBuckets returns success on a non-empty set of
\* matching accounts, every created entry has a numeric amount and
\* totalDistributed equals the context amount (up to the rounding of Number
\* arithmetic),
\* also when the percentages of the matching accounts sum to 0.
C38_SuffixAmountsAreNumbers ==
  \A p \in Procs :
    LET r == inv[p]
    IN  (/\ r.pc = "returned" /\ r.mode = "distributeToSuffixBuckets"
         /\ r.result.success /\ Len(r.result.transactions) > 0)
        => /\ \A k \in 1..Len(r.result.transactions) :
                IsNum(txs[r.result.transactions[k]].amount)
           /\ Close(r.result.totalDistributed, r.context.amount)

(***************************************************************************)
(* The accounts that validateBalances sums.                               *)
(***************************************************************************)
\* C39: the GL accounts summed by validateBalances are the accounts that
\* detectSavings treats as savings accounts; after a fully successful
\* distribution of a deposit into a savings account, one that is savings
\* through its group only included, validateBalances reports balanced from a
\* balanced start and the new entries are checked.
C39_ValidationCoversDetectedSavings ==
  \A p \in Procs :
    LET r == inv[p]
    IN  (/\ r.mode = "webhook" /\ r.pc = "done"
         /\ r.result.success /\ Len(r.result.transactions) > 0)
        => /\ r.balanceValidation.isBalanced
           /\ \A i \in CreatedIn(r) : txs[i].checked
           /\ r.response.checkedCount = Len(r.result.transactions)

(***************************************************************************)
(* The initial distribution of the setup wizard.                          *)
(***************************************************************************)
\* the amounts of the entries created for the savings account of that id
InitialAmountsOf(r, id) ==
  LET created == Filter(r.transactions,
                        {k \in 1..Len(r.transactions) :
                           txs[r.transactions[k]].gl_account_id = id})
  IN  [k \in 1..Len(created) |-> txs[created[k]].amount]

\* C40: the entries that createInitialDistribution creates for the
\* distributions of buildDistributions sum to the total balance of the
\* savings accounts, and the entries of each savings account (by
\* gl_account_id) sum to the balance of that account, also in a suffix group
\* of more than one savings account.
C40_InitialDistributionSumsToBalances ==
  \A p \in Procs :
    LET r == inv[p]
        savings == r.currentSavingsAccounts
    IN  (r.mode = "createInitialDistribution" /\ r.pc = "returned" /\ r.transactionCount > 0)
        => /\ FSum([k \in 1..Len(r.transactions) |-> txs[r.transactions[k]].amount])
                = FSum([i \in 1..Len(savings) |-> savings[i].balance])
           /\ \A i \in 1..Len(savings) :
                FSum(InitialAmountsOf(r, savings[i].id)) = savings[i].balance

====
